---------------------------- MODULE Spec2Model ----------------------------
(***************************************************************************)
(* Trade-import engine of the app (src/src/services/settingsService.ts):   *)
(* time-window splitting, spot position netting, derivatives position     *)
(* netting, cursor pagination, the multi-symbol import flows, request      *)
(* signing, the balance snapshot, symbol discovery, the journal's ledger   *)
(* under repeated imports (src/src/utils/math.ts), the Journal screen's    *)
(* sync control (src/unnamed/part_003) and the alert relay server          *)
(* (src/relay-server/index.js).                                            *)
(*                                                                         *)
(* Numbers.  The code computes on JavaScript numbers.  Quantities, prices  *)
(* and fees are modelled as integers (lots, ticks) and every derived       *)
(* figure (average prices, pnl) as an exact reduced fraction <<n, d>>.     *)
(* Timestamps are integers; millisecond timestamps of the window splitter  *)
(* are taken near 0 because TLC's integers are 32 bits wide.               *)
(***************************************************************************)
EXTENDS Integers, Sequences, FiniteSets, TLC

VARIABLES
    \* buildTimeWindows(startTime, endTime)
    wStart, wEnd, wPc, windows,
    \* toRealizedTrades(rawTrades): its argument, locals and return value
    spotRaw, spotSorted, spotIdx, position, realized, spotPc, spotResult,
    \* a symbol's fills fetched window by window and netted after merging
    venueFills, pendingWindows, merged, chunkPc, chunkTrades,
    \* derivatives netting in fetchFuturesPositionHistory: allUserTrades, the
    \* forEach index, the states map, closedPositions and the returned list
    allUserTrades, futIdx, states, closedPositions, futPc, futResult,
    \* one call of an import function: the function and settings.exchange, its
    \* position, the caller's AbortSignal, the range argument, the venue
    \* requests awaiting an answer, how the call ended and what it returned
    fn, exchange, pc, signal, range, inFlight, outcome, result,
    \* Bybit closed-pnl loop: cursor, rows, the payload last received and the
    \* tokens the venue returned before it
    cursor, rows, lastPage, returnedTokens,
    \* multi-symbol imports: what the venue holds (discovered symbols, spot
    \* fills, futures income rows, futures fills), the symbols list, the loop
    \* index, allTrades, the time windows and the answers received so far
    venueCandidates, venueSpot, venueIncome, venueFut,
    symbols, symIdx, allTrades, impWindows, arrived,
    \* the requests whose rejection was caught and passed over
    skipped,
    \* one call of signedGet / signedGetFromBase: its arguments, its position,
    \* the fetch it has issued and how it ended
    sgArgs, sgPc, sgFetch, sgOutcome,
    \* one call of fetchDashboardData: settings.exchange, its position, the
    \* requests awaiting an answer, the answers received, the requests that were
    \* rejected, how the call ended and the DashboardData built so far
    dashExchange, dashPc, dashInFlight, dashAnswers, dashRejected, dashOutcome, dashData,
    \* symbol discovery of fetchAllTradeHistory: settings.exchange and the three
    \* initial answers, its position and the symbols it computes
    discArgs, discPc, discSymbols,
    \* the journal's ledger under repeated imports: the import function used
    \* and the fills the venue holds, state.trades, the payload of the last
    \* IMPORT_TRADES and the number of imports dispatched
    ledgerSource, ledgerFills, ledger, ledgerPayload, ledgerImports,
    \* the reducer action dispatched last and the trade list it was given
    ledgerAction, ledgerBefore,
    \* two import requests running at once: the import function, and per
    \* request the fills the venue answers with, its position, the netting
    \* state it holds and the Trades it returned
    runFn, runFills, runPc, runState, runResult,
    \* the alert relay (src/relay-server/index.js): db.clients in insertion
    \* order, the alert objects they and the running polls refer to, the
    \* contents of relay-db.json, the rate bucket's count, the /api/sync request
    \* being handled and its position, the requests received, the last
    \* response, the poll() calls and the Telegram messages delivered per alert
    relayClients, alertHeap, relayFile, rateCount, syncReq, syncPc, syncCount,
    relayResponse, polls, telegrams,
    \* the Journal screen (src/unnamed/part_003): the onImportTrades calls and
    \* their AbortControllers, syncAbortRef.current, the IMPORT_TRADES actions
    \* dispatched, and the loading, syncInfo and error state
    journalSyncs, syncAbortRef, dispatched, loading, syncInfo, journalError

wvars == <<wStart, wEnd, wPc, windows>>
svars == <<spotRaw, spotSorted, spotIdx, position, realized, spotPc, spotResult>>
cvars == <<venueFills, pendingWindows, merged, chunkPc, chunkTrades>>
dvars == <<allUserTrades, futIdx, states, closedPositions, futPc, futResult>>
callvars == <<fn, exchange, pc, signal, range, inFlight, outcome, result>>
bvars == <<cursor, rows, lastPage, returnedTokens>>
mvars == <<venueCandidates, venueSpot, venueIncome, venueFut,
           symbols, symIdx, allTrades, impWindows, arrived, skipped>>
gvars == <<sgArgs, sgPc, sgFetch, sgOutcome>>
hvars == <<dashExchange, dashPc, dashInFlight, dashAnswers, dashRejected, dashOutcome,
           dashData>>
kvars == <<discArgs, discPc, discSymbols>>
lvars == <<ledgerSource, ledgerFills, ledger, ledgerPayload, ledgerImports, ledgerAction,
          ledgerBefore>>
nvars == <<runFn, runFills, runPc, runState, runResult>>
rvars == <<relayClients, alertHeap, relayFile, rateCount, syncReq, syncPc, syncCount,
           relayResponse, polls, telegrams>>
jvars == <<journalSyncs, syncAbortRef, dispatched, loading, syncInfo, journalError>>
xvars == <<rvars, jvars>>
avars == <<gvars, hvars, kvars, lvars, nvars, xvars>>
ivars == <<callvars, bvars, mvars, avars>>
corevars == <<wvars, svars, cvars, dvars, callvars, bvars, mvars, xvars>>
\* what a call of one function leaves alone: the state of every other
othersG == <<corevars, hvars, kvars, lvars, nvars>>
othersH == <<corevars, gvars, kvars, lvars, nvars>>
othersK == <<corevars, gvars, hvars, lvars, nvars>>
othersL == <<corevars, gvars, hvars, kvars, nvars>>
othersN == <<corevars, gvars, hvars, kvars, lvars>>
enginevars == <<wvars, svars, cvars, dvars, callvars, bvars, mvars,
                gvars, hvars, kvars, lvars, nvars>>
othersR == <<enginevars, jvars>>
othersJ == <<enginevars, rvars>>
vars == <<wvars, svars, cvars, dvars, ivars>>

---------------------------------------------------------------------------
(* Arithmetic helpers *)

Min(a, b) == IF a <= b THEN a ELSE b

Abs(a) == IF a < 0 THEN -a ELSE a

RECURSIVE GCD(_, _)
GCD(a, b) == IF b = 0 THEN a ELSE GCD(b, a % b)

\* the reduced fraction n/d, d > 0
Norm(n, d) == LET g == GCD(Abs(n), d) IN <<n \div g, d \div g>>

R(i) == <<i, 1>>

RAdd(a, b) == Norm(a[1] * b[2] + b[1] * a[2], a[2] * b[2])

RSub(a, b) == Norm(a[1] * b[2] - b[1] * a[2], a[2] * b[2])

RMul(a, b) == Norm(a[1] * b[1], a[2] * b[2])

\* a / b for b # 0
RDiv(a, b) ==
    IF b[1] > 0 THEN Norm(a[1] * b[2], a[2] * b[1])
    ELSE Norm(-(a[1] * b[2]), a[2] * (-b[1]))

RECURSIVE RSum(_)
RSum(s) == IF s = <<>> THEN R(0) ELSE RAdd(Head(s), RSum(Tail(s)))

RECURSIVE SeqsUpTo(_, _)
\* all sequences over S of length at most n
SeqsUpTo(n, S) ==
    IF n = 0 THEN {<<>>}
    ELSE LET shorter == SeqsUpTo(n - 1, S)
         IN shorter \cup {Append(s, x) : s \in {q \in shorter : Len(q) = n - 1}, x \in S}

---------------------------------------------------------------------------
(* Each part of the engine is checked on its own: while one part runs, the   *)
(* variables of the others rest at these values.                             *)

WIdle == wStart = 0 /\ wEnd = 0 /\ wPc = "idle" /\ windows = <<>>

SIdle ==
    /\ spotRaw = <<>> /\ spotSorted = <<>> /\ spotIdx = 0
    /\ position = [qty |-> 0, avgPrice |-> R(0)]
    /\ realized = <<>> /\ spotPc = "idle" /\ spotResult = <<>>

---------------------------------------------------------------------------
CIdle ==
    /\ venueFills = <<>> /\ pendingWindows = {} /\ merged = <<>>
    /\ chunkPc = "idle" /\ chunkTrades = <<>>

DIdle ==
    /\ allUserTrades = <<>> /\ futIdx = 0 /\ states = <<>>
    /\ closedPositions = <<>> /\ futPc = "idle" /\ futResult = <<>>

NoPage == [list |-> <<>>, next |-> "", forCursor |-> "", none |-> TRUE]

CallIdle ==
    /\ fn = "none" /\ exchange = "none" /\ pc = "idle" /\ signal = "clear"
    /\ range = [startTime |-> 0, endTime |-> 0] /\ inFlight = {}
    /\ outcome = "none" /\ result = <<>>

BIdle == cursor = "" /\ rows = <<>> /\ lastPage = NoPage /\ returnedTokens = {}

MIdle ==
    /\ venueCandidates = <<>> /\ venueSpot = <<>> /\ venueIncome = <<>> /\ venueFut = <<>>
    /\ symbols = <<>> /\ symIdx = 0 /\ allTrades = <<>> /\ impWindows = <<>>
    /\ arrived = <<>> /\ skipped = {}

NoArgs == [fn |-> "none"]

GIdle == sgArgs = NoArgs /\ sgPc = "idle" /\ sgFetch = {} /\ sgOutcome = "none"

NoData ==
    [accountBalance |-> <<0, 1>>, spotBalance |-> <<0, 1>>, futuresBalance |-> <<0, 1>>,
     totalBalance |-> <<0, 1>>, futuresAvailable |-> FALSE, runningTrades |-> <<>>]

HIdle ==
    /\ dashExchange = "none" /\ dashPc = "idle" /\ dashInFlight = {} /\ dashAnswers = <<>>
    /\ dashRejected = {} /\ dashOutcome = "none" /\ dashData = NoData

KIdle == discArgs = NoArgs /\ discPc = "idle" /\ discSymbols = <<>>

LIdle ==
    /\ ledgerSource = "none" /\ ledgerFills = <<>> /\ ledger = <<>> /\ ledgerPayload = <<>>
    /\ ledgerImports = 0 /\ ledgerAction = "none" /\ ledgerBefore = <<>>

NIdle ==
    /\ runFn = "none" /\ runFills = <<>> /\ runPc = <<>> /\ runState = <<>> /\ runResult = <<>>

NoRequest == [given |-> FALSE]

RIdle ==
    /\ relayClients = <<>> /\ alertHeap = <<>> /\ relayFile = <<>> /\ rateCount = 0
    /\ syncReq = NoRequest /\ syncPc = "off" /\ syncCount = 0
    /\ relayResponse = [n |-> 0] /\ polls = <<>> /\ telegrams = <<>>

JIdle ==
    /\ journalSyncs = <<>> /\ syncAbortRef = 0 /\ dispatched = <<>>
    /\ loading = FALSE /\ syncInfo = "unmounted" /\ journalError = "none"

XIdle == RIdle /\ JIdle

AIdle == GIdle /\ HIdle /\ KIdle /\ LIdle /\ NIdle /\ XIdle

IIdle == CallIdle /\ BIdle /\ MIdle /\ AIdle

CoreIdle == WIdle /\ SIdle /\ CIdle /\ DIdle /\ CallIdle /\ BIdle /\ MIdle /\ XIdle

EngineIdle ==
    /\ WIdle /\ SIdle /\ CIdle /\ DIdle /\ CallIdle /\ BIdle /\ MIdle
    /\ GIdle /\ HIdle /\ KIdle /\ LIdle /\ NIdle

---------------------------------------------------------------------------
(* Time-Window Paginator: buildTimeWindows *)

FUTURES_MAX_WINDOW_MS == 7 * 24 * 60 * 60 * 1000

\* how far the sampled start and end times lie from a multiple of the span
MaxOffset == 3

\* the sampled ranges span up to this many whole windows (plus the offset)
WeekCounts == 0 .. 2

WindowEndOffByOne(from, endTime) == Min(from + FUTURES_MAX_WINDOW_MS, endTime)

WindowEnd(from, endTime) == Min(from + FUTURES_MAX_WINDOW_MS - 1, endTime)

RECURSIVE WindowsFrom(_, _)
\* the while loop of buildTimeWindows, from the current cursor
WindowsFrom(from, endTime) ==
    IF from <= endTime
    THEN LET windowEnd == WindowEnd(from, endTime)
         IN <<[startTime |-> from, endTime |-> windowEnd]>>
                \o WindowsFrom(windowEnd + 1, endTime)
    ELSE <<>>

BuildTimeWindows(startTime, endTime) == WindowsFrom(startTime, endTime)

WInputs ==
    {<<s, s + k * FUTURES_MAX_WINDOW_MS + d>> :
        s \in 0 .. MaxOffset, k \in WeekCounts, d \in -MaxOffset .. MaxOffset}

WInit ==
    /\ \E in \in {p \in WInputs : p[1] <= p[2]} : wStart = in[1] /\ wEnd = in[2]
    /\ wPc = "call"
    /\ windows = <<>>

WBuild ==
    /\ wPc = "call"
    /\ windows' = BuildTimeWindows(wStart, wEnd)
    /\ wPc' = "done"
    /\ UNCHANGED <<wStart, wEnd>>
    /\ UNCHANGED <<svars, cvars, dvars, ivars>>

InitWindows == WInit /\ SIdle /\ CIdle /\ DIdle /\ IIdle

NextWindows == WBuild

SpecWindows == InitWindows /\ [][NextWindows]_vars

\* the instants at which coverage is sampled: the range's ends, every window's
\* ends, and their neighbours
WSamples ==
    UNION {{t - 1, t, t + 1} :
        t \in {wStart, wEnd} \cup {windows[i].startTime : i \in DOMAIN windows}
                \cup {windows[i].endTime : i \in DOMAIN windows}}

\* C1: for start <= end the windows begin at start, end at end, are each
\* non-empty and at most FUTURES_MAX_WINDOW_MS long, follow one another
\* without gap or overlap, and cover exactly [start, end].
C1_WindowCoverage ==
    wPc = "done" =>
        /\ Len(windows) >= 1
        /\ windows[1].startTime = wStart
        /\ windows[Len(windows)].endTime = wEnd
        /\ \A i \in DOMAIN windows :
              /\ windows[i].startTime <= windows[i].endTime
              /\ windows[i].endTime - windows[i].startTime + 1 <= FUTURES_MAX_WINDOW_MS
        /\ \A i \in 1 .. Len(windows) - 1 :
              windows[i + 1].startTime = windows[i].endTime + 1
        /\ \A t \in WSamples :
              Cardinality({i \in DOMAIN windows :
                  windows[i].startTime <= t /\ t <= windows[i].endTime})
                = (IF wStart <= t /\ t <= wEnd THEN 1 ELSE 0)

\* a range that needs three windows, the last one shorter than the span
C1_Witness ==
    /\ wPc = "done"
    /\ Len(windows) = 3
    /\ windows[3].endTime - windows[3].startTime + 1 < FUTURES_MAX_WINDOW_MS
    /\ windows[1].endTime - windows[1].startTime + 1 = FUTURES_MAX_WINDOW_MS

---------------------------------------------------------------------------
(* Spot Position-Netting State Machine: toRealizedTrades *)

\* the longest fill list netted
MaxFills == 3

Prices == {100, 110, 120}

Qtys == {1, 2}

Fees == {0, 1}

SpotSymbol == "BTCUSDT"

\* new Date(ms).toISOString(), and new Date(iso).getTime() back
ToISOString(ms) == <<"iso", ms>>

GetTime(iso) == iso[2]

RECURSIVE InsertByTime(_, _)
\* x placed behind every element whose time is not later than its own
InsertByTime(s, x) ==
    IF s = <<>> THEN <<x>>
    ELSE IF s[Len(s)].time <= x.time THEN Append(s, x)
    ELSE Append(InsertByTime(SubSeq(s, 1, Len(s) - 1), x), s[Len(s)])

RECURSIVE StableSortByTime(_)
StableSortByTime(s) ==
    IF s = <<>> THEN <<>>
    ELSE InsertByTime(StableSortByTime(SubSeq(s, 1, Len(s) - 1)), s[Len(s)])

SortByTimeOmitted(rawTrades) == rawTrades

\* [...rawTrades].sort((a, b) => a.time - b.time): Array.prototype.sort is stable
SortByTime(rawTrades) == StableSortByTime(rawTrades)

RECURSIVE Reverse(_)
Reverse(s) == IF s = <<>> THEN <<>> ELSE Append(Reverse(Tail(s)), Head(s))

SpotClosedQtyWholeFill(qty, posQty) == qty

\* Math.min(qty, Math.abs(position.qty))
SpotClosedQty(qty, posQty) == Min(qty, Abs(posQty))

SpotGrossPnlLongOnly(isBuyer, entryPrice, price, closedQty) ==
    RMul(RSub(price, entryPrice), R(closedQty))

\* (entryPrice - price) * closedQty for a buy, (price - entryPrice) * closedQty for a sell
SpotGrossPnl(isBuyer, entryPrice, price, closedQty) ==
    IF isBuyer THEN RMul(RSub(entryPrice, price), R(closedQty))
    ELSE RMul(RSub(price, entryPrice), R(closedQty))

\* weighted average of the position's price and the fill's
SpotBlend(pos, openingQty, price) ==
    RDiv(RAdd(RMul(pos.avgPrice, R(Abs(pos.qty))), RMul(price, R(openingQty))),
         R(Abs(pos.qty) + openingQty))

SpotOpenKeepsAverage(isBuyer, pos, openingQty, price) ==
    IF openingQty > 0
    THEN IF (isBuyer /\ pos.qty > 0) \/ (~isBuyer /\ pos.qty < 0)
         THEN [qty |-> IF isBuyer THEN pos.qty + openingQty ELSE pos.qty - openingQty,
               avgPrice |-> SpotBlend(pos, openingQty, price)]
         ELSE [qty |-> IF isBuyer THEN openingQty ELSE -openingQty,
               avgPrice |-> IF pos.avgPrice # R(0) THEN pos.avgPrice ELSE price]
    ELSE IF pos.qty = 0 THEN [qty |-> 0, avgPrice |-> R(0)]
    ELSE pos

SpotOpenLastPrice(isBuyer, pos, openingQty, price) ==
    IF openingQty > 0
    THEN [qty |-> IF isBuyer THEN Abs(pos.qty) + openingQty ELSE -(Abs(pos.qty) + openingQty),
          avgPrice |-> price]
    ELSE IF pos.qty = 0 THEN [qty |-> 0, avgPrice |-> R(0)]
    ELSE pos

\* the position after the closing part: the opening part of the fill is added
\* to it (openingQty > 0), or a flat position has its average cleared
SpotOpen(isBuyer, pos, openingQty, price) ==
    IF openingQty > 0
    THEN IF isBuyer
         THEN IF pos.qty > 0
              THEN LET totalNotional ==
                           RAdd(RMul(pos.avgPrice, R(pos.qty)), RMul(price, R(openingQty)))
                       totalQty == pos.qty + openingQty
                   IN [qty |-> totalQty, avgPrice |-> RDiv(totalNotional, R(totalQty))]
              ELSE [qty |-> openingQty, avgPrice |-> price]
         ELSE IF pos.qty < 0
              THEN LET totalAbsQty == Abs(pos.qty) + openingQty
                       weighted ==
                           RAdd(RMul(pos.avgPrice, R(Abs(pos.qty))), RMul(price, R(openingQty)))
                   IN [qty |-> pos.qty - openingQty, avgPrice |-> RDiv(weighted, R(totalAbsQty))]
              ELSE [qty |-> -openingQty, avgPrice |-> price]
    ELSE IF pos.qty = 0 THEN [qty |-> 0, avgPrice |-> R(0)]
    ELSE pos

SpotNetPnlProRata(pnl, fee, closedQty, qty) ==
    RSub(pnl, RDiv(RMul(fee, R(closedQty)), R(qty)))

\* pnl: pnl - fee, the whole commission of the fill whatever part of it closed
SpotNetPnl(pnl, fee, closedQty, qty) == RSub(pnl, fee)

\* one run of the forEach body on fill t at index idx (0-based): the position
\* it leaves and the Trades it pushes (none or one)
SpotStep(pos, t, idx) ==
    LET price == R(t.price)
        qty == t.qty
        fee == R(t.commission)
        closing == IF t.isBuyer THEN pos.qty < 0 ELSE pos.qty > 0
        closedQty == IF closing THEN SpotClosedQty(qty, pos.qty) ELSE 0
        entryPrice == IF closing THEN pos.avgPrice ELSE price
        pnl == IF closing THEN SpotGrossPnl(t.isBuyer, entryPrice, price, closedQty) ELSE R(0)
        afterClose ==
            IF closing
            THEN [pos EXCEPT !.qty = IF t.isBuyer THEN pos.qty + closedQty ELSE pos.qty - closedQty]
            ELSE pos
        openingQty == qty - closedQty
    IN [position |-> SpotOpen(t.isBuyer, afterClose, openingQty, price),
        pushed |->
            IF closedQty <= 0 THEN <<>>
            ELSE <<[id |-> <<t.symbol, t.time, idx>>,
                    symbol |-> t.symbol,
                    entryPrice |-> entryPrice,
                    exitPrice |-> price,
                    size |-> closedQty,
                    timestamp |-> ToISOString(t.time),
                    pnl |-> SpotNetPnl(pnl, fee, closedQty, qty),
                    category |-> "Uncategorized",
                    notes |-> IF t.isBuyer THEN "BUY" ELSE "SELL",
                    source |-> "API"]>>]

RECURSIVE SpotFold(_, _, _, _)
\* sorted.forEach from index idx on
SpotFold(sorted, idx, pos, acc) ==
    IF idx >= Len(sorted) THEN acc
    ELSE LET r == SpotStep(pos, sorted[idx + 1], idx)
         IN SpotFold(sorted, idx + 1, r.position, acc \o r.pushed)

ToRealizedTrades(rawTrades) ==
    Reverse(SpotFold(SortByTime(rawTrades), 0, [qty |-> 0, avgPrice |-> R(0)], <<>>))

SpotFillShapes == [isBuyer : BOOLEAN, price : Prices, qty : Qtys, commission : Fees]

SpotFill(shape, time) ==
    [symbol |-> SpotSymbol, time |-> time, isBuyer |-> shape.isBuyer,
     price |-> shape.price, qty |-> shape.qty, commission |-> shape.commission]

\* the venue answers /api/v3/myTrades oldest first; here fill i has time i
SInit ==
    /\ \E shapes \in SeqsUpTo(MaxFills, SpotFillShapes) :
          spotRaw = [i \in DOMAIN shapes |-> SpotFill(shapes[i], i)]
    /\ spotSorted = <<>> /\ spotIdx = 0
    /\ position = [qty |-> 0, avgPrice |-> R(0)]
    /\ realized = <<>> /\ spotPc = "call" /\ spotResult = <<>>

\* entry: the sorted copy and the empty position
SpotCall ==
    /\ spotPc = "call"
    /\ spotSorted' = SortByTime(spotRaw)
    /\ position' = [qty |-> 0, avgPrice |-> R(0)]
    /\ realized' = <<>>
    /\ spotIdx' = 0
    /\ spotPc' = "loop"
    /\ UNCHANGED <<spotRaw, spotResult>>
    /\ UNCHANGED <<wvars, cvars, dvars, ivars>>

\* one iteration of sorted.forEach
SpotNext ==
    /\ spotPc = "loop"
    /\ spotIdx < Len(spotSorted)
    /\ LET r == SpotStep(position, spotSorted[spotIdx + 1], spotIdx)
       IN /\ position' = r.position
          /\ realized' = realized \o r.pushed
    /\ spotIdx' = spotIdx + 1
    /\ UNCHANGED <<spotRaw, spotSorted, spotPc, spotResult>>
    /\ UNCHANGED <<wvars, cvars, dvars, ivars>>

\* return realized.reverse()
SpotReturn ==
    /\ spotPc = "loop"
    /\ spotIdx = Len(spotSorted)
    /\ spotResult' = Reverse(realized)
    /\ spotPc' = "done"
    /\ UNCHANGED <<spotRaw, spotSorted, spotIdx, position, realized>>
    /\ UNCHANGED <<wvars, cvars, dvars, ivars>>

InitSpot == SInit /\ WIdle /\ CIdle /\ DIdle /\ IIdle

NextSpot == SpotCall \/ SpotNext \/ SpotReturn

SpecSpot == InitSpot /\ [][NextSpot]_vars

Sign(q) == IF q > 0 THEN 1 ELSE IF q < 0 THEN -1 ELSE 0

\* the step that has just run the forEach body on the fill at spotIdx
SpotStepTaken == spotPc = "loop" /\ spotPc' = "loop" /\ spotIdx' = spotIdx + 1

\* the fill is on the other side of a nonzero position
SpotOpposite(t, pos) == (t.isBuyer /\ pos.qty < 0) \/ (~t.isBuyer /\ pos.qty > 0)

\* C2: a fill on the opposite side of a nonzero position closes exactly
\* min(fillQty, |qty|) at the current average entry price; the Trade pushed has
\* entryPrice = that average, exitPrice = the fill price and
\* pnl = (exitPrice - avgEntry) * closedQty * sign(qty) - the fill's fee.
C2_OppositeFillCloses ==
    [][SpotStepTaken =>
        LET t == spotSorted[spotIdx + 1]
            closed == Min(t.qty, Abs(position.qty))
        IN SpotOpposite(t, position) =>
            /\ Len(realized') = Len(realized) + 1
            /\ SubSeq(realized', 1, Len(realized)) = realized
            /\ LET tr == realized'[Len(realized')]
               IN /\ tr.size = closed
                  /\ tr.entryPrice = position.avgPrice
                  /\ tr.exitPrice = R(t.price)
                  /\ tr.pnl =
                        RSub(RMul(RMul(RSub(R(t.price), position.avgPrice), R(closed)),
                                  R(Sign(position.qty))),
                             R(t.commission))
            /\ Abs(position.qty) - closed =
                  (IF t.qty <= Abs(position.qty) THEN Abs(position'.qty) ELSE 0)
    ]_vars

\* a short position built from two sells at different prices (a fractional
\* average) has been partly bought back with a fee: the last Trade is that close
C2_Witness ==
    /\ spotPc = "loop"
    /\ spotIdx = 3
    /\ ~spotSorted[1].isBuyer /\ ~spotSorted[2].isBuyer /\ spotSorted[3].isBuyer
    /\ spotSorted[1].price # spotSorted[2].price
    /\ spotSorted[1].qty # spotSorted[2].qty
    /\ spotSorted[3].commission = 1
    /\ position.qty < 0
    /\ Len(realized) = 1
    /\ realized[1].id = <<SpotSymbol, 3, 2>>
    /\ realized[1].entryPrice[2] # 1

\* C3: a single fill larger than the open quantity of the opposite-side
\* position pushes exactly one Trade, of size the previously open quantity, and
\* leaves a position of the opposite sign whose quantity is the excess and
\* whose average entry price is the fill price.
C3_FlipOneTrade ==
    [][SpotStepTaken =>
        LET t == spotSorted[spotIdx + 1]
        IN (SpotOpposite(t, position) /\ t.qty > Abs(position.qty)) =>
            /\ Len(realized') = Len(realized) + 1
            /\ realized'[Len(realized')].size = Abs(position.qty)
            /\ position'.qty # 0
            /\ Sign(position'.qty) = -Sign(position.qty)
            /\ Abs(position'.qty) = t.qty - Abs(position.qty)
            /\ position'.avgPrice = R(t.price)
    ]_vars

\* long 1, then a sell of 2: one Trade of size 1 and a short of 1 at the sell price
C3_Witness ==
    /\ spotPc = "loop"
    /\ spotIdx = 2
    /\ spotSorted[1].isBuyer /\ spotSorted[1].qty = 1
    /\ ~spotSorted[2].isBuyer /\ spotSorted[2].qty = 2
    /\ spotSorted[2].price # spotSorted[1].price
    /\ Len(realized) = 1 /\ realized[1].size = 1
    /\ position = [qty |-> -1, avgPrice |-> R(spotSorted[2].price)]

\* C21: a fill pushes a Trade if and only if it closes a positive quantity of
\* an existing opposite-side position; the Trade's size is the closed quantity
\* (more than 0, at most the fill quantity, and less than the fill quantity
\* when part of the fill opens a new position); a fill that only opens or
\* increases a position pushes nothing.
C21_TradeIffCloses ==
    [][SpotStepTaken =>
        LET t == spotSorted[spotIdx + 1]
        IN IF SpotOpposite(t, position)
           THEN /\ Len(realized') = Len(realized) + 1
                /\ SubSeq(realized', 1, Len(realized)) = realized
                /\ LET size == realized'[Len(realized')].size
                   IN /\ size > 0
                      /\ size <= t.qty
                      /\ size = Abs(position.qty) - (IF Sign(position'.qty) = Sign(position.qty)
                                                     THEN Abs(position'.qty) ELSE 0)
                      /\ (Sign(position'.qty) = -Sign(position.qty)) => size < t.qty
           ELSE realized' = realized
    ]_vars

\* long 1, a sell of 2 (one Trade of size 1, the other 1 opens a short), then
\* a sell that only increases the short and pushes nothing
C21_Witness ==
    /\ spotPc = "loop"
    /\ spotIdx = 3
    /\ spotSorted[1].isBuyer /\ spotSorted[1].qty = 1
    /\ ~spotSorted[2].isBuyer /\ spotSorted[2].qty = 2
    /\ ~spotSorted[3].isBuyer
    /\ Len(realized) = 1
    /\ realized[1].size = 1
    /\ realized[1].id = <<SpotSymbol, 2, 1>>
    /\ position.qty = -1 - spotSorted[3].qty

\* the fill is on the side of the position, or the position is flat
SpotSameSide(t, pos) == ~SpotOpposite(t, pos)

\* (avg * qty + price * fillQty) / (qty + fillQty)
VolumeWeighted(avg, qty, price, fillQty) ==
    RDiv(RAdd(RMul(avg, R(qty)), RMul(R(price), R(fillQty))), R(qty + fillQty))

\* C22: a fill on the side of the current position (or from flat) adds its
\* quantity to the position, sets the average entry price to
\* (avg*qty + price*fillQty)/(qty + fillQty) and pushes nothing; so two
\* same-side opens followed by one opposite fill of the total quantity give
\* exactly one Trade, with entry = the volume-weighted average of the opens,
\* exit = the closing price, size = the total and
\* pnl = (exit - entry) * size * direction - the closing fee, and leave the
\* position flat.
C22_SameSideAverages ==
    [][SpotStepTaken =>
        LET t == spotSorted[spotIdx + 1]
        IN /\ SpotSameSide(t, position) =>
                /\ Abs(position'.qty) = Abs(position.qty) + t.qty
                /\ Sign(position'.qty) = (IF t.isBuyer THEN 1 ELSE -1)
                /\ position'.avgPrice =
                      VolumeWeighted(position.avgPrice, Abs(position.qty), t.price, t.qty)
                /\ realized' = realized
           /\ (/\ spotIdx = 2
               /\ spotSorted[1].isBuyer = spotSorted[2].isBuyer
               /\ t.isBuyer # spotSorted[1].isBuyer
               /\ t.qty = spotSorted[1].qty + spotSorted[2].qty) =>
                LET a == spotSorted[1]
                    b == spotSorted[2]
                    entry == RDiv(R(a.price * a.qty + b.price * b.qty), R(a.qty + b.qty))
                    dir == IF a.isBuyer THEN 1 ELSE -1
                IN /\ Len(realized') = 1
                   /\ realized'[1].entryPrice = entry
                   /\ realized'[1].exitPrice = R(t.price)
                   /\ realized'[1].size = t.qty
                   /\ realized'[1].pnl =
                         RSub(RMul(RMul(RSub(R(t.price), entry), R(t.qty)), R(dir)),
                              R(t.commission))
                   /\ position'.qty = 0
    ]_vars

\* BUY 1 @100, BUY 1 @110, SELL 2 @120 without fee: entry 105, exit 120,
\* size 2, pnl 30, flat
C22_Witness ==
    /\ spotPc = "loop"
    /\ spotIdx = 3
    /\ spotSorted[1].isBuyer /\ spotSorted[1].qty = 1 /\ spotSorted[1].price = 100
    /\ spotSorted[2].isBuyer /\ spotSorted[2].qty = 1 /\ spotSorted[2].price = 110
    /\ ~spotSorted[3].isBuyer /\ spotSorted[3].qty = 2 /\ spotSorted[3].price = 120
    /\ spotSorted[3].commission = 0
    /\ Len(realized) = 1
    /\ realized[1].entryPrice = R(105)
    /\ realized[1].exitPrice = R(120)
    /\ realized[1].size = 2
    /\ realized[1].pnl = R(30)
    /\ position.qty = 0

---------------------------------------------------------------------------
(* Fills of one symbol fetched in time windows, merged, then netted *)

\* the fills' timestamps are 1 .. MaxTime
MaxTime == 2

ChunkShapes == [isBuyer : BOOLEAN, price : {100, 120}, qty : Qtys, commission : {1}]

\* the venue's fills of the symbol, oldest first, fills of one timestamp in the
\* venue's own (id) order
VenueHistories ==
    {[i \in DOMAIN p[1] |-> SpotFill(p[1][i], p[2][i])] :
        p \in {q \in SeqsUpTo(MaxFills, ChunkShapes) \X SeqsUpTo(MaxFills, 1 .. MaxTime) :
                  /\ Len(q[1]) = Len(q[2])
                  /\ \A i \in 1 .. Len(q[2]) - 1 : q[2][i] <= q[2][i + 1]}}

\* the windows [s, e] into which cutting after each time of cuts splits 1 .. MaxTime
WindowsOfCuts(cuts) ==
    {w \in [startTime : 1 .. MaxTime, endTime : 1 .. MaxTime] :
        /\ w.startTime <= w.endTime
        /\ w.startTime = 1 \/ (w.startTime - 1) \in cuts
        /\ w.endTime = MaxTime \/ w.endTime \in cuts
        /\ \A c \in cuts : ~(w.startTime <= c /\ c < w.endTime)}

\* the venue's answer for one window: the fills inside it, in the venue's order
WindowFills(fills, w) ==
    SelectSeq(fills, LAMBDA t : w.startTime <= t.time /\ t.time <= w.endTime)

CInit ==
    /\ venueFills \in VenueHistories
    /\ \E cuts \in SUBSET (1 .. MaxTime - 1) : pendingWindows = WindowsOfCuts(cuts)
    /\ merged = <<>>
    /\ chunkPc = "fetch"
    /\ chunkTrades = <<>>

\* one window's answer is appended to the merged list; the windows arrive in any order
ChunkAppend ==
    /\ chunkPc = "fetch"
    /\ \E w \in pendingWindows :
          /\ merged' = merged \o WindowFills(venueFills, w)
          /\ pendingWindows' = pendingWindows \ {w}
    /\ UNCHANGED <<venueFills, chunkPc, chunkTrades>>
    /\ UNCHANGED <<wvars, svars, dvars, ivars>>

\* every window is merged: toRealizedTrades(merged)
ChunkNet ==
    /\ chunkPc = "fetch"
    /\ pendingWindows = {}
    /\ chunkTrades' = ToRealizedTrades(merged)
    /\ chunkPc' = "done"
    /\ UNCHANGED <<venueFills, pendingWindows, merged>>
    /\ UNCHANGED <<wvars, svars, dvars, ivars>>

InitChunks == CInit /\ WIdle /\ SIdle /\ DIdle /\ IIdle

NextChunks == ChunkAppend \/ ChunkNet

SpecChunks == InitChunks /\ [][NextChunks]_vars

TotalPnl(trades) == RSum([i \in DOMAIN trades |-> trades[i].pnl])

\* C4: the total pnl of the Trades netted from the merged fills is the same
\* for every partition of the fills into time windows and every order in which
\* the windows are concatenated (it is the total of the unpartitioned history),
\* also when fills share a timestamp.
C4_ChunkingInvariant ==
    chunkPc = "done" => TotalPnl(chunkTrades) = TotalPnl(ToRealizedTrades(venueFills))

\* two windows merged latest first, two fills sharing a timestamp, and an
\* order of the fills that matters to the total
C4_Witness ==
    /\ chunkPc = "done"
    /\ Len(merged) = 3
    /\ merged # venueFills
    /\ venueFills[1].time = venueFills[2].time
    /\ TotalPnl(chunkTrades) # TotalPnl(Reverse(SpotFold(merged, 0, [qty |-> 0, avgPrice |-> R(0)], <<>>)))

\* C27: a Trade's pnl is the gross realized amount minus the entire commission
\* of the closing fill, also when only part of that fill closed the position;
\* the commission of a fill that only opens or increases a position is taken
\* from no Trade: each fill changes the sum of the Trades' pnl by the gross
\* amount it realizes minus its whole commission if it closed a positive
\* quantity, and by nothing otherwise.
C27_WholeFeeOfClosingFills ==
    [][SpotStepTaken =>
        LET t == spotSorted[spotIdx + 1]
            closed == IF SpotOpposite(t, position) THEN Min(t.qty, Abs(position.qty)) ELSE 0
            gross == RMul(RMul(RSub(R(t.price), position.avgPrice), R(closed)),
                          R(Sign(position.qty)))
        IN IF closed > 0
           THEN /\ realized'[Len(realized')].pnl = RSub(gross, R(t.commission))
                /\ TotalPnl(realized') =
                      RSub(RAdd(TotalPnl(realized), gross), R(t.commission))
           ELSE TotalPnl(realized') = TotalPnl(realized)
    ]_vars

\* an open that paid a commission, then a sell of which half closes the long
\* and half opens a short: the one Trade carries the sell's whole commission
\* and nothing of the open's
C27_Witness ==
    /\ spotPc = "loop"
    /\ spotIdx = 2
    /\ spotSorted[1].isBuyer /\ spotSorted[1].qty = 1 /\ spotSorted[1].commission = 1
    /\ ~spotSorted[2].isBuyer /\ spotSorted[2].qty = 2 /\ spotSorted[2].commission = 1
    /\ Len(realized) = 1
    /\ TotalPnl(realized) = R(spotSorted[2].price - spotSorted[1].price - 1)

---------------------------------------------------------------------------
(* Derivatives Position-Netting State Machine (fetchFuturesPositionHistory, *)
(* Binance path, from allUserTrades on)                                     *)

\* the longest list of derivative fills netted
MaxFutFills == 3

FutSymbol == "ETHUSDT"

FutPrices == {100, 110}

RealizedPnls == {0, 10}

\* t.positionSide === 'BOTH' ? 'LONG' : t.positionSide
NormalSide(positionSide) == IF positionSide = "BOTH" THEN "LONG" ELSE positionSide

FutKey(t) == <<t.symbol, NormalSide(t.positionSide)>>

FreshState(time) ==
    [qty |-> 0, avgEntry |-> R(0), closeQty |-> 0, closeNotional |-> 0,
     realizedPnl |-> 0, lastTime |-> time]

\* openLong and openShort (the two have the same body)
OpenPosition(state, qty, price) ==
    LET totalNotional == RAdd(RMul(state.avgEntry, R(state.qty)), R(price * qty))
        newQty == state.qty + qty
    IN [state EXCEPT !.qty = newQty,
                     !.avgEntry = IF newQty > 0 THEN RDiv(totalNotional, R(newQty)) ELSE R(0)]

ClosePositionLastFillOnly(state, t) ==
    LET closeQty == Min(t.qty, state.qty)
    IN IF closeQty > 0
       THEN [state EXCEPT !.qty = state.qty - closeQty,
                          !.closeQty = closeQty,
                          !.closeNotional = closeQty * t.price,
                          !.realizedPnl = t.realizedPnl,
                          !.lastTime = t.time]
       ELSE state

ClosePositionUnclamped(state, t) ==
    [state EXCEPT !.qty = state.qty - t.qty,
                  !.closeQty = state.closeQty + t.qty,
                  !.closeNotional = state.closeNotional + t.qty * t.price,
                  !.realizedPnl = state.realizedPnl + t.realizedPnl,
                  !.lastTime = t.time]

\* the closing branch: closeQty = Math.min(qty, state.qty), applied when positive
ClosePosition(state, t) ==
    LET closeQty == Min(t.qty, state.qty)
    IN IF closeQty > 0
       THEN [state EXCEPT !.qty = state.qty - closeQty,
                          !.closeQty = state.closeQty + closeQty,
                          !.closeNotional = state.closeNotional + closeQty * t.price,
                          !.realizedPnl = state.realizedPnl + t.realizedPnl,
                          !.lastTime = t.time]
       ELSE state

\* states.set(key, value)
MapSet(map, key, value) ==
    [k \in DOMAIN map \cup {key} |-> IF k = key THEN value ELSE map[k]]

\* one run of the allUserTrades.forEach body on fill t at index idx (0-based)
FutStep(map, t, idx) ==
    LET positionSide == NormalSide(t.positionSide)
        key == FutKey(t)
        state0 == IF key \in DOMAIN map THEN map[key] ELSE FreshState(t.time)
        isLong == positionSide = "LONG"
        opens == (isLong /\ t.side = "BUY") \/ (~isLong /\ t.side = "SELL")
        closes == (isLong /\ t.side = "SELL") \/ (~isLong /\ t.side = "BUY")
        state == IF opens THEN OpenPosition(state0, t.qty, t.price)
                 ELSE IF closes THEN ClosePosition(state0, t)
                 ELSE state0
    IN IF t.qty <= 0 THEN [states |-> map, pushed |-> <<>>]
       ELSE IF state.qty = 0 /\ state.closeQty > 0
       THEN [states |-> MapSet(map, key, FreshState(t.time)),
             pushed |->
                <<[id |-> <<"FUTPOS", t.symbol, positionSide, state.lastTime, idx>>,
                   symbol |-> t.symbol,
                   entryPrice |-> state.avgEntry,
                   exitPrice |-> RDiv(R(state.closeNotional), R(state.closeQty)),
                   size |-> state.closeQty,
                   timestamp |-> ToISOString(state.lastTime),
                   pnl |-> R(state.realizedPnl),
                   category |-> "Uncategorized",
                   notes |-> positionSide,
                   source |-> "API"]>>]
       ELSE [states |-> MapSet(map, key, state), pushed |-> <<>>]

RECURSIVE InsertNewestFirst(_, _)
\* x placed behind every element that is not older than it
InsertNewestFirst(s, x) ==
    IF s = <<>> THEN <<x>>
    ELSE IF GetTime(s[Len(s)].timestamp) >= GetTime(x.timestamp) THEN Append(s, x)
    ELSE Append(InsertNewestFirst(SubSeq(s, 1, Len(s) - 1), x), s[Len(s)])

RECURSIVE SortNewestFirst(_)
\* trades.sort((a, b) => new Date(b.timestamp).getTime() - new Date(a.timestamp).getTime())
SortNewestFirst(s) ==
    IF s = <<>> THEN <<>>
    ELSE InsertNewestFirst(SortNewestFirst(SubSeq(s, 1, Len(s) - 1)), s[Len(s)])

RECURSIVE FutFold(_, _, _, _)
FutFold(trades, idx, map, acc) ==
    IF idx >= Len(trades) THEN acc
    ELSE LET r == FutStep(map, trades[idx + 1], idx)
         IN FutFold(trades, idx + 1, r.states, acc \o r.pushed)

\* lines 767-847: the Trades returned for the sorted fills
NetUserTrades(trades) == SortNewestFirst(FutFold(trades, 0, <<>>, <<>>))

\* the account is in one-way mode (every fill tagged BOTH) or in hedge mode
\* (every fill tagged LONG or SHORT); in hedge mode the venue reports a realized
\* amount only on the fills of the closing side (SELL on LONG, BUY on SHORT)
FutShapes(mode) ==
    IF mode = "oneway"
    THEN [side : {"BUY", "SELL"}, positionSide : {"BOTH"},
          price : FutPrices, qty : Qtys, realizedPnl : RealizedPnls]
    ELSE {sh \in [side : {"BUY", "SELL"}, positionSide : {"LONG", "SHORT"},
                  price : FutPrices, qty : Qtys, realizedPnl : RealizedPnls] :
            ((sh.positionSide = "LONG") = (sh.side = "BUY")) => sh.realizedPnl = 0}

FutFill(shape, time) ==
    [symbol |-> FutSymbol, side |-> shape.side, positionSide |-> shape.positionSide,
     price |-> shape.price, qty |-> shape.qty, realizedPnl |-> shape.realizedPnl,
     time |-> time]

\* allUserTrades is sorted by time when the loop starts; here fill i has time i
DInit ==
    /\ \E mode \in {"oneway", "hedge"} :
       \E n \in 0 .. MaxFutFills : \E shapes \in [1 .. n -> FutShapes(mode)] :
          allUserTrades = [i \in DOMAIN shapes |-> FutFill(shapes[i], i)]
    /\ futIdx = 0 /\ states = <<>> /\ closedPositions = <<>>
    /\ futPc = "loop" /\ futResult = <<>>

\* one iteration of allUserTrades.forEach
FutNext ==
    /\ futPc = "loop"
    /\ futIdx < Len(allUserTrades)
    /\ LET r == FutStep(states, allUserTrades[futIdx + 1], futIdx)
       IN /\ states' = r.states
          /\ closedPositions' = closedPositions \o r.pushed
    /\ futIdx' = futIdx + 1
    /\ UNCHANGED <<allUserTrades, futPc, futResult>>
    /\ UNCHANGED <<wvars, svars, cvars, ivars>>

\* return closedPositions.sort(...)
FutReturn ==
    /\ futPc = "loop"
    /\ futIdx = Len(allUserTrades)
    /\ futResult' = SortNewestFirst(closedPositions)
    /\ futPc' = "done"
    /\ UNCHANGED <<allUserTrades, futIdx, states, closedPositions>>
    /\ UNCHANGED <<wvars, svars, cvars, ivars>>

InitFutNet == DInit /\ WIdle /\ SIdle /\ CIdle /\ IIdle

NextFutNet == FutNext \/ FutReturn

SpecFutNet == InitFutNet /\ [][NextFutNet]_vars

\* the signed change of the venue's position that fill t makes on its own
\* (symbol, positionSide): in one-way mode and on the long side a BUY adds,
\* on the short side a SELL adds
Delta(t) ==
    IF t.positionSide = "SHORT"
    THEN (IF t.side = "SELL" THEN t.qty ELSE -t.qty)
    ELSE (IF t.side = "BUY" THEN t.qty ELSE -t.qty)

RECURSIVE Ledger(_, _, _)
\* the venue's position of one (symbol, positionSide) over the fills of
\* trades, starting flat: its net quantity, and the quantity closed and the
\* realizedPnl reported by closing fills since it was last flat; ok is FALSE
\* once a hedge-mode side would go below zero (not a history from flat)
Ledger(trades, side, acc) ==
    IF trades = <<>> THEN acc
    ELSE LET t == Head(trades)
             d == Delta(t)
             closing == acc.net # 0 /\ Sign(d) # Sign(acc.net)
             net == acc.net + d
             flat == [net |-> 0, closed |-> 0, pnl |-> 0, ok |-> acc.ok]
             base == IF acc.net = 0 THEN flat ELSE acc
             next ==
                [net |-> net,
                 closed |-> base.closed + (IF closing THEN Min(Abs(d), Abs(acc.net)) ELSE 0),
                 pnl |-> base.pnl + (IF closing THEN t.realizedPnl ELSE 0),
                 ok |-> acc.ok /\ (side = "BOTH" \/ net >= 0)]
         IN IF t.positionSide = side
            THEN Ledger(Tail(trades), side, next)
            ELSE Ledger(Tail(trades), side, acc)

LedgerOf(trades, side) == Ledger(trades, side, [net |-> 0, closed |-> 0, pnl |-> 0, ok |-> TRUE])

FutStepTaken == futPc = "loop" /\ futPc' = "loop" /\ futIdx' = futIdx + 1

\* C5: whenever a fill returns the position of its (symbol, positionSide) to
\* exactly zero net quantity, a Trade is pushed whose size is the quantity
\* closed since the previous flat and whose pnl is the sum of the realizedPnl of
\* the closing fills since the previous flat; one-way (BOTH) histories that
\* open with a SELL and close with a BUY included.
C5_FlatReconciliation ==
    [][FutStepTaken =>
        LET t == allUserTrades[futIdx + 1]
            before == LedgerOf(SubSeq(allUserTrades, 1, futIdx), t.positionSide)
            after == LedgerOf(SubSeq(allUserTrades, 1, futIdx + 1), t.positionSide)
        IN (after.ok /\ before.net # 0 /\ after.net = 0) =>
            /\ Len(closedPositions') = Len(closedPositions) + 1
            /\ closedPositions'[Len(closedPositions')].size = after.closed
            /\ closedPositions'[Len(closedPositions')].pnl = R(after.pnl)
    ]_vars

\* the state the forEach body reads for fill t: states.get(key) ?? a new one
StateBefore(t) ==
    IF FutKey(t) \in DOMAIN states THEN states[FutKey(t)] ELSE FreshState(t.time)

\* fill t is on the closing side of its key
FutCloses(t) ==
    \/ NormalSide(t.positionSide) = "LONG" /\ t.side = "SELL"
    \/ NormalSide(t.positionSide) # "LONG" /\ t.side = "BUY"

\* every counter of the state is zero
Emptied(state) ==
    /\ state.qty = 0 /\ state.avgEntry = R(0) /\ state.closeQty = 0
    /\ state.closeNotional = 0 /\ state.realizedPnl = 0

\* C23: each time the open quantity of a (symbol, positionSide) key returns to
\* zero by a closing fill, exactly one Trade is pushed, with entry = the
\* average entry price, exit = accumulated closed notional / accumulated closed
\* quantity, size = accumulated closed quantity, pnl = accumulated realized
\* amount and timestamp = the time of that fill, and the key's counters are
\* reset to zero; no other fill pushes a Trade, so a flat event is pushed once.
C23_OneTradePerFlatEvent ==
    [][FutStepTaken =>
        LET t == allUserTrades[futIdx + 1]
            before == StateBefore(t)
        IN IF FutCloses(t) /\ before.qty > 0 /\ t.qty >= before.qty
           THEN /\ Len(closedPositions') = Len(closedPositions) + 1
                /\ SubSeq(closedPositions', 1, Len(closedPositions)) = closedPositions
                /\ LET tr == closedPositions'[Len(closedPositions')]
                       closedQty == before.closeQty + before.qty
                   IN /\ tr.entryPrice = before.avgEntry
                      /\ tr.exitPrice =
                            RDiv(R(before.closeNotional + before.qty * t.price), R(closedQty))
                      /\ tr.size = closedQty
                      /\ tr.pnl = R(before.realizedPnl + t.realizedPnl)
                      /\ tr.timestamp = ToISOString(t.time)
                /\ Emptied(states'[FutKey(t)])
           ELSE closedPositions' = closedPositions
    ]_vars

\* a long of 2 closed by two sells of 1 at different prices with realized
\* amounts: one Trade of size 2 at the second sell, and an emptied state
C23_Witness ==
    /\ futPc = "loop"
    /\ futIdx = 3
    /\ allUserTrades[1].side = "BUY" /\ allUserTrades[1].positionSide = "LONG"
    /\ allUserTrades[1].qty = 2
    /\ allUserTrades[2].side = "SELL" /\ allUserTrades[2].positionSide = "LONG"
    /\ allUserTrades[2].qty = 1 /\ allUserTrades[2].realizedPnl = 10
    /\ allUserTrades[3].side = "SELL" /\ allUserTrades[3].positionSide = "LONG"
    /\ allUserTrades[3].qty = 1 /\ allUserTrades[3].realizedPnl = 10
    /\ allUserTrades[2].price # allUserTrades[3].price
    /\ Len(closedPositions) = 1
    /\ closedPositions[1].size = 2
    /\ closedPositions[1].pnl = R(20)
    /\ closedPositions[1].exitPrice = R(105)
    /\ closedPositions[1].timestamp = ToISOString(3)
    /\ Emptied(states[<<FutSymbol, "LONG">>])

\* C26: the open quantity of every (symbol, positionSide) key is never
\* negative: a closing fill takes min(fill quantity, open quantity) off it (the
\* excess opens no reverse position), and a closing fill that arrives while
\* the open quantity is zero changes no field of the state, adds nothing to
\* the realized amount of any Trade and pushes nothing.
C26_OpenQuantityNeverNegative ==
    [][FutStepTaken =>
        LET t == allUserTrades[futIdx + 1]
            before == StateBefore(t)
        IN /\ \A k \in DOMAIN states' : states'[k].qty >= 0
           /\ FutCloses(t) =>
                /\ states'[FutKey(t)].qty =
                      (IF t.qty >= before.qty THEN 0 ELSE before.qty - t.qty)
                /\ before.qty = 0 =>
                      /\ states'[FutKey(t)] = before
                      /\ closedPositions' = closedPositions
    ]_vars

\* a short of 1 bought back by a buy of 2 (one Trade of size 1, no long
\* opened), then a second buy at zero open quantity with a realized amount
\* that reaches no Trade
C26_Witness ==
    /\ futPc = "loop"
    /\ futIdx = 3
    /\ allUserTrades[1].side = "SELL" /\ allUserTrades[1].positionSide = "SHORT"
    /\ allUserTrades[1].qty = 1
    /\ allUserTrades[2].side = "BUY" /\ allUserTrades[2].positionSide = "SHORT"
    /\ allUserTrades[2].qty = 2 /\ allUserTrades[2].realizedPnl = 0
    /\ allUserTrades[3].side = "BUY" /\ allUserTrades[3].positionSide = "SHORT"
    /\ allUserTrades[3].realizedPnl = 10
    /\ Len(closedPositions) = 1
    /\ closedPositions[1].size = 1
    /\ closedPositions[1].pnl = R(0)
    /\ states[<<FutSymbol, "SHORT">>].qty = 0
    /\ states[<<FutSymbol, "SHORT">>].realizedPnl = 0

---------------------------------------------------------------------------
(* Import calls: the caller's signal, the requests in flight, the outcome *)

Aborted == signal # "clear"

\* the range argument: From Date before or after To Date
Ranges ==
    {[startTime |-> 1, endTime |-> 2], [startTime |-> 2, endTime |-> 1],
     [startTime |-> 1, endTime |-> FUTURES_MAX_WINDOW_MS + 1]}

\* a venue request awaiting its answer; signalled: the AbortSignal was passed to fetch
Request(kind, symbol, window, cur, signalled) ==
    [kind |-> kind, symbol |-> symbol, window |-> window, cursor |-> cur,
     signalled |-> signalled]

\* the caller may hand over a signal that is already aborted
CallInit(f, ex) ==
    /\ fn = f /\ exchange \in ex /\ pc = "call"
    /\ signal \in {"clear", "abortedBefore"}
    /\ range \in Ranges
    /\ inFlight = {} /\ outcome = "none" /\ result = <<>>

\* controller.abort() while the call is running
Abort ==
    /\ pc \notin {"idle", "done"}
    /\ signal = "clear"
    /\ signal' = "abortedDuring"
    /\ UNCHANGED <<fn, exchange, pc, range, inFlight, outcome, result>>
    /\ UNCHANGED <<avars, wvars, svars, cvars, dvars, bvars, mvars>>

---------------------------------------------------------------------------
(* Cursor pagination: the Bybit closed-pnl loop of fetchFuturesPositionHistory *)

\* rows kept in the model (the list grows without bound against a venue that
\* never stops; from this length on further rows are not recorded)
MaxRows == 2

\* continuation tokens; "" stands for a missing nextPageCursor
Tokens == {"", "a", "b", "c"}

BybitRow ==
    [symbol |-> "ETHUSDT", avgEntryPrice |-> 100, avgExitPrice |-> 110, closedPnl |-> 10,
     qty |-> 1, updatedTime |-> 5, side |-> "Sell"]

\* what the venue may answer: a page of no or one row and a token or none
Pages == [list : {<<>>, <<BybitRow>>}, next : Tokens]

BybitBreakNoRepeatGuard(next, list, cur) == next = "" \/ Len(list) = 0

\* if (!next || list.length === 0 || next === cursor) break
BybitBreak(next, list, cur) == next = "" \/ Len(list) = 0 \/ next = cur

\* rows.map(...).sort(...)
BybitTrades(rws) ==
    SortNewestFirst(
        [i \in DOMAIN rws |->
            [id |-> <<"BYBIT-POS", rws[i].symbol, rws[i].updatedTime, i - 1>>,
             symbol |-> rws[i].symbol,
             entryPrice |-> R(rws[i].avgEntryPrice),
             exitPrice |-> R(rws[i].avgExitPrice),
             size |-> rws[i].qty,
             timestamp |-> ToISOString(rws[i].updatedTime),
             pnl |-> R(rws[i].closedPnl),
             category |-> "Uncategorized",
             notes |-> rws[i].side,
             source |-> "API"]])

BInit == cursor = "" /\ rows = <<>> /\ lastPage = NoPage /\ returnedTokens = {}

\* the range check left out
StartAfterEndIgnored(r) == FALSE

\* lines 640-644 and 697-701: if (start > end) throw
StartAfterEnd(r) == r.startTime > r.endTime

\* entry: the range check, then the first closed-pnl request (sent without
\* looking at the signal and without passing it on)
BybitCall ==
    /\ fn = "fetchFuturesPositionHistory" /\ exchange = "bybit" /\ pc = "call"
    /\ IF StartAfterEnd(range)
       THEN /\ outcome' = "failed" /\ pc' = "done"
            /\ UNCHANGED inFlight
       ELSE /\ inFlight' = {Request("closed-pnl", "", 0, "", FALSE)}
            /\ pc' = "await"
            /\ UNCHANGED outcome
    /\ UNCHANGED <<fn, exchange, signal, range, result, bvars>>
    /\ UNCHANGED <<avars, wvars, svars, cvars, dvars, mvars>>

\* a page arrives: it is appended, then the loop ends (return), is cancelled
\* (throw) or sends the next request
BybitPage ==
    /\ fn = "fetchFuturesPositionHistory" /\ exchange = "bybit" /\ pc = "await"
    /\ \E page \in Pages :
        LET grown == rows \o page.list
            kept == IF Len(rows) >= MaxRows THEN rows ELSE grown
        IN /\ lastPage' = [list |-> page.list, next |-> page.next,
                            forCursor |-> cursor, none |-> FALSE]
           /\ returnedTokens' = returnedTokens \cup ({lastPage.next} \ {""})
           /\ rows' = kept
           /\ IF BybitBreak(page.next, page.list, cursor)
              THEN /\ outcome' = "returned" /\ result' = BybitTrades(kept)
                   /\ pc' = "done" /\ inFlight' = {}
                   /\ UNCHANGED cursor
              ELSE /\ cursor' = page.next
                   /\ IF Aborted
                      THEN /\ outcome' = "cancelled" /\ pc' = "done" /\ inFlight' = {}
                           /\ UNCHANGED result
                      ELSE /\ inFlight' = {Request("closed-pnl", "", 0, page.next, FALSE)}
                           /\ UNCHANGED <<outcome, result, pc>>
    /\ UNCHANGED <<fn, exchange, signal, range>>
    /\ UNCHANGED <<avars, wvars, svars, cvars, dvars, mvars>>

\* signedGet rejects (transport, HTTP status): the error leaves the function
BybitFail ==
    /\ fn = "fetchFuturesPositionHistory" /\ exchange = "bybit" /\ pc = "await"
    /\ outcome' = "failed" /\ pc' = "done" /\ inFlight' = {}
    /\ UNCHANGED <<fn, exchange, signal, range, result, bvars>>
    /\ UNCHANGED <<avars, wvars, svars, cvars, dvars, mvars>>

InitBybit ==
    /\ CallInit("fetchFuturesPositionHistory", {"bybit"}) /\ BInit /\ MIdle
    /\ WIdle /\ SIdle /\ CIdle /\ DIdle /\ AIdle

NextBybit == BybitCall \/ BybitPage \/ BybitFail \/ Abort

SpecBybit == InitBybit /\ [][NextBybit]_vars

\* the call runs, an answer to every request arrives and the loop resumes
\* when it does
FairSpecBybit == SpecBybit /\ WF_vars(BybitCall) /\ WF_vars(BybitPage)

CallEnded == pc = "done"

\* the venue has answered with an empty page or without a next token
SourceEnded == ~lastPage.none /\ (lastPage.list = <<>> \/ lastPage.next = "")

\* the venue has answered with a token it had returned before
SourceRepeated == ~lastPage.none /\ lastPage.next # "" /\ lastPage.next \in returnedTokens

\* the venue has answered with the very token the request carried
SourceRepeatedInARow == ~lastPage.none /\ lastPage.next # "" /\ lastPage.next = lastPage.forCursor

\* C8 as claimed: against a venue that eventually returns an empty page, no
\* next token, or a token it has already returned, the loop ends.
C8_CursorTerminates == (<>(SourceEnded \/ SourceRepeated)) => <>CallEnded

\* C8 as amended: against a venue that eventually returns an empty page, no
\* next token, or the token of the request it answers (the same token twice in
\* a row), the loop ends.
C8_TerminatesOnTokenTwiceInARow == (<>(SourceEnded \/ SourceRepeatedInARow)) => <>CallEnded

\* the loop has returned on a non-empty page that repeated the request's token
C8_Witness ==
    /\ pc = "done" /\ outcome = "returned"
    /\ lastPage.list # <<>> /\ lastPage.next = "b" /\ lastPage.forCursor = "b"
    /\ Len(rows) = 2

\* C9: the signal is checked before every page request, the first included:
\* no closed-pnl request is sent once the signal is aborted.
C9_NoRequestOnceAborted ==
    [][(\E r \in inFlight' \ inFlight : r.kind = "closed-pnl") => ~Aborted]_vars

---------------------------------------------------------------------------
(* Multi-symbol imports: fetchAllTradeHistory and the Binance path of       *)
(* fetchFuturesPositionHistory                                              *)

ImportSymbols == {"BTCUSDT", "ETHUSDT"}

\* MapSet for the answers received
Arrive(req, data) == MapSet(arrived, req, data)

\* a signalled request is rejected by fetch once the signal is aborted; any
\* request may be rejected by the venue or the network
MayAnswer(req) == ~(req.signalled /\ Aborted)

\* the candidate lists symbol discovery may come to (lines 549-574)
CandidateLists == {<<>>, <<"BTCUSDT">>, <<"BTCUSDT", "ETHUSDT">>}

\* the spot fills the venue holds for a symbol: none, or a buy closed by a sell
SpotHistory(sym) ==
    <<[symbol |-> sym, time |-> 1, isBuyer |-> TRUE, price |-> 100, qty |-> 1, commission |-> 0],
      [symbol |-> sym, time |-> 3, isBuyer |-> FALSE, price |-> 110, qty |-> 1, commission |-> 1]>>

SpotVenues == {[sym \in ImportSymbols |-> IF sym \in with THEN SpotHistory(sym) ELSE <<>>] :
                  with \in SUBSET ImportSymbols}

\* REALIZED_PNL income rows of the futures account, oldest first
IncomeRows ==
    [symbol : ImportSymbols, income : {0, 5}, time : {2, FUTURES_MAX_WINDOW_MS + 1},
     tranId : {7}, incomeType : {"REALIZED_PNL"}, info : {""}]

IncomeHistories ==
    {h \in SeqsUpTo(2, IncomeRows) :
        \A i \in 1 .. Len(h) - 1 : h[i].time <= h[i + 1].time /\ h[i].symbol # h[i + 1].symbol}

\* the futures fills the venue holds for a symbol: none, or a long opened in
\* the first week and closed in the second
FutHistory(sym) ==
    <<[symbol |-> sym, side |-> "BUY", positionSide |-> "LONG", price |-> 100, qty |-> 1,
       realizedPnl |-> 0, time |-> 1],
      [symbol |-> sym, side |-> "SELL", positionSide |-> "LONG", price |-> 110, qty |-> 1,
       realizedPnl |-> 5, time |-> FUTURES_MAX_WINDOW_MS + 1]>>

FutVenues == {[sym \in ImportSymbols |-> IF sym \in with THEN FutHistory(sym) ELSE <<>>] :
                 with \in SUBSET ImportSymbols}

\* the venue's answer to a request with startTime/endTime
InRange(list, from, to) == SelectSeq(list, LAMBDA x : from <= x.time /\ x.time <= to)

\* lines 610-625: the Trades fetchAllTradeHistory makes of income rows
IncomeTrades(income) ==
    LET kept == SelectSeq(income, LAMBDA row : row.income # 0)
    IN [i \in DOMAIN kept |->
           [id |-> <<"FUT", kept[i].tranId, kept[i].time>>,
            symbol |-> IF kept[i].symbol # "" THEN kept[i].symbol ELSE "FUTURES",
            entryPrice |-> R(0),
            exitPrice |-> R(0),
            size |-> 0,
            timestamp |-> ToISOString(kept[i].time),
            pnl |-> R(kept[i].income),
            category |-> "Uncategorized",
            notes |-> <<"Futures", kept[i].incomeType, kept[i].info>>,
            source |-> "API"]]

RECURSIVE Flatten(_)
\* Array.prototype.flat
Flatten(lists) == IF lists = <<>> THEN <<>> ELSE Head(lists) \o Flatten(Tail(lists))

\* Array.from(new Set(list)): first occurrences, in order
Unique(list) ==
    LET firsts == {i \in DOMAIN list : \A j \in 1 .. i - 1 : list[j] # list[i]}
    IN [k \in 1 .. Cardinality(firsts) |->
           list[CHOOSE i \in firsts : Cardinality({j \in firsts : j < i}) = k - 1]]

MInit ==
    /\ venueCandidates \in CandidateLists
    /\ venueSpot \in SpotVenues
    /\ venueIncome \in IncomeHistories
    /\ venueFut \in FutVenues
    /\ symbols = <<>> /\ symIdx = 0 /\ allTrades = <<>> /\ impWindows = <<>>
    /\ arrived = <<>> /\ skipped = {}

\* lines 579-631 from the top of the for loop over `syms` with `trades` pushed
\* so far and `idx` symbols done: the next symbol's request, or the futures income
\* request, or the return
SpotContinue(syms, trades, idx) ==
    /\ allTrades' = trades
    /\ symIdx' = idx
    /\ IF idx < Len(syms)
       THEN IF Aborted
            THEN /\ outcome' = "cancelled" /\ pc' = "done" /\ inFlight' = {}
                 /\ UNCHANGED result
            ELSE /\ inFlight' = {Request("myTrades", syms[idx + 1], 0, "", TRUE)}
                 /\ pc' = "symbol"
                 /\ UNCHANGED <<outcome, result>>
       ELSE IF exchange = "binance"
            THEN /\ inFlight' = {Request("income", "", 0, "", TRUE)}
                 /\ pc' = "income"
                 /\ UNCHANGED <<outcome, result>>
            ELSE /\ outcome' = "returned" /\ result' = SortNewestFirst(trades)
                 /\ pc' = "done" /\ inFlight' = {}

\* entry: exchangeInfo (with the signal), account and openOrders (without)
SpotImportCall ==
    /\ fn = "fetchAllTradeHistory" /\ pc = "call"
    /\ inFlight' = {Request("exchangeInfo", "", 0, "", TRUE),
                    Request("account", "", 0, "", FALSE),
                    Request("openOrders", "", 0, "", FALSE)}
    /\ pc' = "init"
    /\ UNCHANGED <<fn, exchange, signal, range, outcome, result, bvars, mvars>>
    /\ UNCHANGED <<avars, wvars, svars, cvars, dvars>>

\* one of the three initial answers arrives; after the last, symbol discovery
\* and the start of the loop
SpotInitAnswer ==
    /\ fn = "fetchAllTradeHistory" /\ pc = "init"
    /\ \E req \in inFlight :
        /\ MayAnswer(req)
        /\ IF inFlight = {req}
           THEN /\ symbols' = venueCandidates
                /\ IF venueCandidates = <<>>
                   THEN /\ outcome' = "returned" /\ result' = <<>>
                        /\ pc' = "done" /\ inFlight' = {}
                        /\ UNCHANGED <<allTrades, symIdx>>
                   ELSE SpotContinue(venueCandidates, <<>>, 0)
           ELSE /\ inFlight' = inFlight \ {req}
                /\ UNCHANGED <<symbols, allTrades, symIdx, outcome, result, pc>>
    /\ UNCHANGED <<fn, exchange, signal, range, bvars>>
    /\ UNCHANGED <<venueCandidates, venueSpot, venueIncome, venueFut, impWindows, arrived, skipped>>
    /\ UNCHANGED <<avars, wvars, svars, cvars, dvars>>

\* one of the three initial calls rejects: Promise.all rejects, the error leaves
\* the function
SpotInitReject ==
    /\ fn = "fetchAllTradeHistory" /\ pc = "init"
    /\ \E req \in inFlight :
        outcome' = IF req.signalled /\ Aborted THEN "aborted" ELSE "failed"
    /\ pc' = "done"
    /\ UNCHANGED <<fn, exchange, signal, range, inFlight, result, bvars, mvars>>
    /\ UNCHANGED <<avars, wvars, svars, cvars, dvars>>

\* fetchTradeHistory answers: the symbol's Trades are pushed
SpotSymbolAnswer ==
    /\ fn = "fetchAllTradeHistory" /\ pc = "symbol"
    /\ \E req \in inFlight :
        /\ MayAnswer(req)
        /\ SpotContinue(symbols,
                        allTrades \o ToRealizedTrades(InRange(venueSpot[req.symbol],
                                                              range.startTime, range.endTime)),
                        symIdx + 1)
    /\ UNCHANGED <<fn, exchange, signal, range, bvars>>
    /\ UNCHANGED <<venueCandidates, venueSpot, venueIncome, venueFut, symbols, impWindows, arrived, skipped>>
    /\ UNCHANGED <<avars, wvars, svars, cvars, dvars>>

\* fetchTradeHistory rejects (venue, network or abort): caught, the loop goes on
SpotSymbolReject ==
    /\ fn = "fetchAllTradeHistory" /\ pc = "symbol"
    /\ skipped' = skipped \cup inFlight
    /\ SpotContinue(symbols, allTrades, symIdx + 1)
    /\ UNCHANGED <<fn, exchange, signal, range, bvars>>
    /\ UNCHANGED <<venueCandidates, venueSpot, venueIncome, venueFut, symbols, impWindows, arrived>>
    /\ UNCHANGED <<avars, wvars, svars, cvars, dvars>>

\* the futures income answers: its rows are pushed, the sorted list returned
SpotIncomeAnswer ==
    /\ fn = "fetchAllTradeHistory" /\ pc = "income"
    /\ \E req \in inFlight : MayAnswer(req)
    /\ allTrades' = allTrades \o IncomeTrades(InRange(venueIncome, range.startTime, range.endTime))
    /\ outcome' = "returned" /\ result' = SortNewestFirst(allTrades')
    /\ pc' = "done" /\ inFlight' = {}
    /\ UNCHANGED <<fn, exchange, signal, range, bvars>>
    /\ UNCHANGED <<venueCandidates, venueSpot, venueIncome, venueFut, symbols, symIdx,
                   impWindows, arrived, skipped>>
    /\ UNCHANGED <<avars, wvars, svars, cvars, dvars>>

\* the futures income rejects (venue, network or abort): caught, the spot
\* Trades are returned
SpotIncomeReject ==
    /\ fn = "fetchAllTradeHistory" /\ pc = "income"
    /\ outcome' = "returned" /\ result' = SortNewestFirst(allTrades)
    /\ pc' = "done" /\ inFlight' = {}
    /\ skipped' = skipped \cup inFlight
    /\ UNCHANGED <<fn, exchange, signal, range, bvars>>
    /\ UNCHANGED <<venueCandidates, venueSpot, venueIncome, venueFut, symbols, symIdx,
                   allTrades, impWindows, arrived>>
    /\ UNCHANGED <<avars, wvars, svars, cvars, dvars>>

\* lines 721-729: the symbols of the income rows
IncomeSymbols(income) ==
    LET kept == SelectSeq(income, LAMBDA row : row.income # 0 /\ row.symbol # "")
    IN Unique([i \in DOMAIN kept |-> kept[i].symbol])

\* entry of the Binance path: exchange and range checks, the windows, and one
\* income request per window, all at once
FutImportCall ==
    /\ fn = "fetchFuturesPositionHistory" /\ exchange # "bybit" /\ pc = "call"
    /\ IF exchange # "binance" \/ StartAfterEnd(range)
       THEN /\ outcome' = "failed" /\ pc' = "done"
            /\ UNCHANGED <<inFlight, impWindows>>
       ELSE /\ impWindows' = BuildTimeWindows(range.startTime, range.endTime)
            /\ inFlight' = {Request("income", "", w, "", TRUE) : w \in DOMAIN impWindows'}
            /\ pc' = "income"
            /\ UNCHANGED outcome
    /\ UNCHANGED <<fn, exchange, signal, range, result, bvars>>
    /\ UNCHANGED <<venueCandidates, venueSpot, venueIncome, venueFut, symbols, symIdx,
                   allTrades, arrived, skipped>>
    /\ UNCHANGED <<avars, wvars, svars, cvars, dvars>>

\* an income window answers; after the last, the symbols are derived and the
\* userTrades requests of every symbol and window are sent at once
FutIncomeAnswer ==
    /\ fn = "fetchFuturesPositionHistory" /\ pc = "income"
    /\ \E req \in inFlight :
        /\ MayAnswer(req)
        /\ LET w == impWindows[req.window]
               got == Arrive(req, InRange(venueIncome, w.startTime, w.endTime))
           IN IF inFlight = {req}
              THEN LET futuresIncome ==
                           Flatten([i \in DOMAIN impWindows |->
                                       got[Request("income", "", i, "", TRUE)]])
                       syms == IncomeSymbols(futuresIncome)
                   IN /\ symbols' = syms
                      /\ arrived' = <<>>
                      /\ IF syms = <<>>
                         THEN /\ outcome' = "returned" /\ result' = <<>>
                              /\ pc' = "done" /\ inFlight' = {}
                         ELSE /\ inFlight' =
                                    {Request("userTrades", syms[i], j, "", TRUE) :
                                        i \in DOMAIN syms, j \in DOMAIN impWindows}
                              /\ pc' = "trades"
                              /\ UNCHANGED <<outcome, result>>
              ELSE /\ arrived' = got
                   /\ inFlight' = inFlight \ {req}
                   /\ UNCHANGED <<symbols, outcome, result, pc>>
    /\ UNCHANGED <<fn, exchange, signal, range, bvars>>
    /\ UNCHANGED <<venueCandidates, venueSpot, venueIncome, venueFut, symIdx, allTrades,
                   impWindows, skipped>>
    /\ UNCHANGED <<avars, wvars, svars, cvars, dvars>>

\* a userTrades window answers; after the last, the fills are flattened by
\* symbol and window, sorted by time and netted, and the Trades returned
FutTradesAnswer ==
    /\ fn = "fetchFuturesPositionHistory" /\ pc = "trades"
    /\ \E req \in inFlight :
        /\ MayAnswer(req)
        /\ LET w == impWindows[req.window]
               got == Arrive(req, InRange(venueFut[req.symbol], w.startTime, w.endTime))
           IN IF inFlight = {req}
              THEN LET userTradesBySymbol ==
                           [i \in DOMAIN symbols |->
                               Flatten([j \in DOMAIN impWindows |->
                                   got[Request("userTrades", symbols[i], j, "", TRUE)]])]
                   IN /\ outcome' = "returned"
                      /\ result' = NetUserTrades(SortByTime(Flatten(userTradesBySymbol)))
                      /\ pc' = "done" /\ inFlight' = {}
                      /\ arrived' = got
              ELSE /\ arrived' = got
                   /\ inFlight' = inFlight \ {req}
                   /\ UNCHANGED <<outcome, result, pc>>
    /\ UNCHANGED <<fn, exchange, signal, range, bvars>>
    /\ UNCHANGED <<venueCandidates, venueSpot, venueIncome, venueFut, symbols, symIdx,
                   allTrades, impWindows, skipped>>
    /\ UNCHANGED <<avars, wvars, svars, cvars, dvars>>

\* any request of the running Promise.all rejects (venue, network or abort):
\* the error leaves the function, the other requests stay in flight
FutReject ==
    /\ fn = "fetchFuturesPositionHistory" /\ pc \in {"income", "trades"}
    /\ \E req \in inFlight :
        outcome' = IF req.signalled /\ Aborted THEN "aborted" ELSE "failed"
    /\ pc' = "done"
    /\ UNCHANGED <<fn, exchange, signal, range, inFlight, result, bvars, mvars>>
    /\ UNCHANGED <<avars, wvars, svars, cvars, dvars>>

InitSpotImport ==
    /\ CallInit("fetchAllTradeHistory", {"binance", "binance_us"}) /\ BIdle /\ MInit
    /\ venueFut = [sym \in ImportSymbols |-> <<>>]
    /\ WIdle /\ SIdle /\ CIdle /\ DIdle /\ AIdle

InitFutImport ==
    /\ CallInit("fetchFuturesPositionHistory", {"binance", "binance_us"}) /\ BIdle /\ MInit
    /\ venueCandidates = <<>>
    /\ venueSpot = [sym \in ImportSymbols |-> <<>>]
    /\ WIdle /\ SIdle /\ CIdle /\ DIdle /\ AIdle

NextSpotImport ==
    \/ SpotImportCall \/ SpotInitAnswer \/ SpotInitReject
    \/ SpotSymbolAnswer \/ SpotSymbolReject
    \/ SpotIncomeAnswer \/ SpotIncomeReject

NextFutImport == FutImportCall \/ FutIncomeAnswer \/ FutTradesAnswer \/ FutReject

InitImport == InitSpotImport \/ InitFutImport \/ InitBybit

NextImport == NextSpotImport \/ NextFutImport \/ NextBybit

\* every import call: fetchAllTradeHistory, and fetchFuturesPositionHistory on
\* its Bybit and its Binance path
SpecImport == InitImport /\ [][NextImport]_vars

\* the venue's REALIZED_PNL income rows inside the requested range
IncomeInRange == InRange(venueIncome, range.startTime, range.endTime)

\* the symbols with a nonzero income row in the range
SymbolsWithIncome ==
    {IncomeInRange[i].symbol : i \in {j \in DOMAIN IncomeInRange : IncomeInRange[j].income # 0}}

FutImportReturned ==
    /\ fn = "fetchFuturesPositionHistory" /\ exchange = "binance"
    /\ pc = "done" /\ outcome = "returned"

\* C6: when fetchFuturesPositionHistory returns, every symbol with a nonzero
\* realized-PnL income row in the range and no closed position in the result
\* appears in the result as a Trade of size 0, and the pnl of the result sums
\* to the venue's realized-PnL income of the range.
C6_IncomeOnlySymbolsSurface ==
    FutImportReturned =>
        /\ \A sym \in SymbolsWithIncome :
               (\A i \in DOMAIN result : result[i].symbol = sym => result[i].size = 0)
                   => \E i \in DOMAIN result : result[i].symbol = sym /\ result[i].size = 0
        /\ TotalPnl(result) = RSum([i \in DOMAIN IncomeInRange |-> R(IncomeInRange[i].income)])

\* C7: once the caller's signal has fired during an import, the import never
\* returns a Trade list: it ends with a cancellation error.
C7_CancelNeverReturns ==
    (fn \in {"fetchAllTradeHistory", "fetchFuturesPositionHistory"} /\ signal = "abortedDuring")
        => outcome # "returned"

\* C10: in fetchAllTradeHistory and fetchFuturesPositionHistory no two
\* requests for different symbols are in flight at the same moment.
C10_OneSymbolAtATime ==
    \A r1 \in inFlight, r2 \in inFlight :
        (r1.symbol # "" /\ r2.symbol # "") => r1.symbol = r2.symbol

\* the symbols whose fetch rejected and was passed over
SkippedSymbols == {req.symbol : req \in {r \in skipped : r.symbol # ""}}

\* a Trade without its id
SansId(t) == [f \in DOMAIN t \ {"id"} |-> t[f]]

\* the Trades a symbol's fetch yields for the requested range
SymbolTrades(sym) ==
    IF fn = "fetchAllTradeHistory"
    THEN ToRealizedTrades(InRange(venueSpot[sym], range.startTime, range.endTime))
    ELSE NetUserTrades(InRange(venueFut[sym], range.startTime, range.endTime))

\* C11: in a multi-symbol import whose per-symbol requests were sent and whose
\* signal never fired, the import ends by returning, and the result holds the
\* Trades (whatever their ids) of every symbol that was not skipped.
C11_SymbolFailureSkipped ==
    (/\ fn \in {"fetchAllTradeHistory", "fetchFuturesPositionHistory"}
     /\ symbols # <<>> /\ signal = "clear" /\ pc = "done")
        => /\ outcome = "returned"
           /\ \A i \in DOMAIN symbols :
                  symbols[i] \notin SkippedSymbols
                      => \A k \in DOMAIN SymbolTrades(symbols[i]) :
                             \E j \in DOMAIN result :
                                 SansId(result[j]) = SansId(SymbolTrades(symbols[i])[k])

\* C13: fetchFuturesPositionHistory called with a range whose start is after
\* its end sends no venue request and ends with an error, on the Bybit and on
\* the Binance path.
C13_RangeCheckedFirst ==
    (fn = "fetchFuturesPositionHistory" /\ range.startTime > range.endTime)
        => /\ inFlight = {}
           /\ pc \in {"call", "done"}
           /\ pc = "done" => outcome = "failed"

\* both paths have refused an inverted range
C13_Witness ==
    /\ fn = "fetchFuturesPositionHistory" /\ exchange \in {"bybit", "binance"}
    /\ range.startTime > range.endTime
    /\ pc = "done" /\ outcome = "failed" /\ inFlight = {}

---------------------------------------------------------------------------
(* Signed requests: signedGet and signedGetFromBase                         *)

\* getBaseUrl(exchange)
GetBaseUrl(ex) ==
    IF ex = "bybit" THEN "https://api.bybit.com"
    ELSE IF ex = "binance_us" THEN "https://api.binance.us" ELSE "https://api.binance.com"

\* CryptoJS.HmacSHA256(message, secret)
HmacSHA256(message, secret) == <<"HmacSHA256", message, secret>>

\* signQuery(query, secret)
SignQuery(query, secret) == HmacSHA256(query, secret)

\* signBybitGet(timestamp, apiKey, recvWindow, query, secret)
SignBybitGet(timestamp, apiKey, recvWindow, query, secret) ==
    HmacSHA256(<<timestamp, apiKey, recvWindow, query>>, secret)

\* the fetch a header-signed (Bybit) call issues
BybitFetch(baseUrl, a) ==
    [url |-> <<baseUrl, a.path, a.params>>,
     headers |-> [key |-> a.exchangeApiKey,
                  sign |-> SignBybitGet("now", a.exchangeApiKey, "10000", a.params,
                                        a.exchangeApiSecret)]]

\* the fetch a query-signed (Binance) call issues
BinanceFetch(baseUrl, a) ==
    LET query == <<a.params, "now", "10000">>
    IN [url |-> <<baseUrl, a.path, query, SignQuery(query, a.exchangeApiSecret)>>,
        headers |-> [key |-> a.exchangeApiKey, sign |-> <<>>]]

\* signedGetFromBase(baseUrl, path, settings, params, signal)
SignedGetFromBase(baseUrl, a) ==
    IF a.exchange = "bybit" THEN BybitFetch(baseUrl, a) ELSE BinanceFetch(baseUrl, a)

\* signedGet(path, settings, params, signal)
SignedGet(a) ==
    IF a.exchange = "bybit" THEN BybitFetch(GetBaseUrl(a.exchange), a)
    ELSE SignedGetFromBase(GetBaseUrl(a.exchange), a)

SignedCalls ==
    [fn : {"signedGet", "signedGetFromBase"},
     exchange : {"binance", "binance_us", "bybit"},
     exchangeApiKey : {"", "key"},
     exchangeApiSecret : {"", "secret"},
     path : {"/account"},
     params : {<<>>, <<"symbol", "BTCUSDT">>}]

GInit == sgArgs \in SignedCalls /\ sgPc = "call" /\ sgFetch = {} /\ sgOutcome = "none"

\* the call up to its await: the request is signed and handed to fetch
SignedSend ==
    /\ sgPc = "call"
    /\ sgFetch' = {IF sgArgs.fn = "signedGet" THEN SignedGet(sgArgs)
                   ELSE SignedGetFromBase("https://fapi.binance.com", sgArgs)}
    /\ sgPc' = "await"
    /\ UNCHANGED <<sgArgs, sgOutcome>>
    /\ UNCHANGED othersG

\* fetchJson resolves with the parsed body
SignedResolve ==
    /\ sgPc = "await"
    /\ sgPc' = "done" /\ sgOutcome' = "resolved"
    /\ UNCHANGED <<sgArgs, sgFetch>>
    /\ UNCHANGED othersG

\* fetchJson throws Error(message): the venue's msg, HTTP <status>, or the
\* transport's message
SignedReject ==
    /\ sgPc = "await"
    /\ sgPc' = "done"
    /\ sgOutcome' \in {"Error: venue msg", "Error: HTTP 401", "Error: Network request failed"}
    /\ UNCHANGED <<sgArgs, sgFetch>>
    /\ UNCHANGED othersG

InitSigned == GInit /\ CoreIdle /\ HIdle /\ KIdle /\ LIdle /\ NIdle

NextSigned == SignedSend \/ SignedResolve \/ SignedReject

SpecSigned == InitSigned /\ [][NextSigned]_vars

\* C12: a signed request made with an empty API key or an empty API secret
\* sends nothing to the network and fails with an authentication error.
C12_EmptyCredentialRejected ==
    (sgArgs # NoArgs /\ (sgArgs.exchangeApiKey = "" \/ sgArgs.exchangeApiSecret = ""))
        => /\ sgFetch = {}
           /\ sgPc = "done" => sgOutcome = "AuthenticationError"

---------------------------------------------------------------------------
(* Balance snapshot: fetchDashboardData                                     *)

\* a number that is not finite (NaN), as Number() makes of a malformed string
NaN == <<0, 0>>

IsFinite(a) == a[2] # 0

\* getFuturesBaseUrl(exchange); "" stands for null
GetFuturesBaseUrl(ex) == IF ex = "binance" THEN "https://fapi.binance.com" ELSE ""

StableCoins == {"USD", "USDT", "USDC", "FDUSD", "TUSD", "BUSD"}

PreferredQuote(ex) == IF ex = "binance_us" THEN "USD" ELSE "USDT"

\* tickerMap.has(symbol): new Map(tickers.map(...))
TickerHas(tickers, symbol) == \E i \in DOMAIN tickers : tickers[i].symbol = symbol

\* tickerMap.get(symbol) of a symbol the map has: the last entry wins
TickerGet(tickers, symbol) ==
    LET last == CHOOSE i \in DOMAIN tickers :
                    /\ tickers[i].symbol = symbol
                    /\ \A j \in DOMAIN tickers : tickers[j].symbol = symbol => j <= i
    IN tickers[last].price

\* if (tickerMap.get(symbol)): present and neither 0 nor NaN
TickerTruthy(tickers, symbol) ==
    /\ TickerHas(tickers, symbol)
    /\ IsFinite(TickerGet(tickers, symbol))
    /\ TickerGet(tickers, symbol)[1] # 0

\* the last line of toQuoteValue taken for the amount itself
UnconvertibleAtPar(amount) == amount

\* line 347: return 0
Unconvertible(amount) == R(0)

\* toQuoteValue(asset, amount)
ToQuoteValue(ex, tickers, asset, amount) ==
    LET preferredQuote == PreferredQuote(ex)
    IN IF ~IsFinite(amount) \/ amount[1] <= 0 THEN R(0)
       ELSE IF asset \in StableCoins THEN amount
       ELSE IF asset = preferredQuote THEN amount
       ELSE IF TickerTruthy(tickers, asset \o preferredQuote)
            THEN RMul(amount, TickerGet(tickers, asset \o preferredQuote))
       ELSE IF TickerTruthy(tickers, preferredQuote \o asset)
            THEN RDiv(amount, TickerGet(tickers, preferredQuote \o asset))
       ELSE IF TickerTruthy(tickers, asset \o "USDT")
            THEN RMul(amount, TickerGet(tickers, asset \o "USDT"))
       ELSE IF TickerTruthy(tickers, "USDT" \o asset)
            THEN RDiv(amount, TickerGet(tickers, "USDT" \o asset))
       ELSE Unconvertible(amount)

\* Number(b.free) + Number(b.locked)
BalanceTotal(b) ==
    IF IsFinite(b.free) /\ IsFinite(b.locked) THEN RAdd(b.free, b.locked) ELSE NaN

\* account.balances.reduce(...)
SpotBalance(ex, tickers, balances) ==
    RSum([i \in DOMAIN balances |->
             ToQuoteValue(ex, tickers, balances[i].asset, BalanceTotal(balances[i]))])

\* answers of /api/v3/account
Balances ==
    [asset : {"USDT", "ABC", "XYZ"}, free : {<<1, 2>>, NaN}, locked : {R(0)}]
        \cup [asset : {"XYZ"}, free : {R(3)}, locked : {R(1)}]

Accounts ==
    {a \in SeqsUpTo(2, Balances) : \A i \in 1 .. Len(a) - 1 : a[i].asset # a[i + 1].asset}

Ticker(symbol, price) == [symbol |-> symbol, price |-> R(price)]

\* answers of /api/v3/ticker/price; no table prices XYZ
TickerTables ==
    {<<>>,
     <<Ticker("ABCUSDT", 2), Ticker("USDTUSD", 50000)>>,
     <<Ticker("ABCUSDT", 2)>>,
     <<Ticker("ABCUSD", 4)>>,
     <<Ticker("USDABC", 2)>>,
     <<Ticker("ABCUSDT", 0), Ticker("USDTABC", 4)>>,
     <<Ticker("ABCUSD", 4), Ticker("ABCUSD", 5)>>}

\* answers of /api/v3/openOrders
OpenOrderLists ==
    {<<>>,
     <<[symbol |-> "ABCUSDT", price |-> 1, origQty |-> R(2), side |-> "BUY"],
       [symbol |-> "XYZUSDT", price |-> 3, origQty |-> R(0), side |-> "SELL"]>>,
     <<[symbol |-> "XYZUSDT", price |-> 3, origQty |-> R(1), side |-> "SELL"]>>,
     <<[symbol |-> "ABCUSDT", price |-> 1, origQty |-> NaN, side |-> "BUY"],
       [symbol |-> "ABCUSDT", price |-> 1, origQty |-> R(-1), side |-> "SELL"],
       [symbol |-> "ABCUSDT", price |-> 3, origQty |-> <<3, 2>>, side |-> "SELL"]>>}

\* answers of /fapi/v2/account: totalWalletBalance
FuturesAccounts == {[totalWalletBalance |-> R(20)], [totalWalletBalance |-> R(0)]}

\* answers of /fapi/v2/positionRisk; an empty markPrice is "", a malformed
\* unRealizedProfit is NaN
PositionRisks ==
    {<<>>,
     <<[symbol |-> "ABCUSDT", positionAmt |-> R(2), entryPrice |-> 100,
        markPrice |-> [empty |-> FALSE, value |-> 110], unRealizedProfit |-> R(19)]>>,
     <<[symbol |-> "ABCUSDT", positionAmt |-> R(-1), entryPrice |-> 100,
        markPrice |-> [empty |-> FALSE, value |-> 110], unRealizedProfit |-> NaN],
       [symbol |-> "XYZUSDT", positionAmt |-> R(0), entryPrice |-> 0,
        markPrice |-> [empty |-> TRUE, value |-> 0], unRealizedProfit |-> R(0)]>>,
     <<[symbol |-> "ABCUSDT", positionAmt |-> NaN, entryPrice |-> 100,
        markPrice |-> [empty |-> FALSE, value |-> 110], unRealizedProfit |-> R(5)],
       [symbol |-> "XYZUSDT", positionAmt |-> <<3, 2>>, entryPrice |-> 100,
        markPrice |-> [empty |-> FALSE, value |-> 90], unRealizedProfit |-> NaN]>>}

\* answers of /v5/account/wallet-balance: result.list[0]
BybitWallets ==
    [coin : {<<>>, <<R(10), R(5)>>},
     hasTotalWalletBalance : BOOLEAN,
     totalWalletBalance : {R(20), NaN}]

\* answers of /v5/position/list
BybitPositions ==
    {<<>>,
     <<[symbol |-> "ABCUSDT", size |-> R(2), avgPrice |-> 100,
        markPrice |-> [empty |-> FALSE, value |-> 110], unrealisedPnl |-> R(19),
        side |-> "Buy"]>>,
     <<[symbol |-> "ABCUSDT", size |-> R(1), avgPrice |-> 100,
        markPrice |-> [empty |-> TRUE, value |-> 0], unrealisedPnl |-> NaN,
        side |-> "Sell"],
       [symbol |-> "XYZUSDT", size |-> R(0), avgPrice |-> 0,
        markPrice |-> [empty |-> TRUE, value |-> 0], unrealisedPnl |-> R(0),
        side |-> "None"]>>,
     <<[symbol |-> "ABCUSDT", size |-> NaN, avgPrice |-> 100,
        markPrice |-> [empty |-> FALSE, value |-> 110], unrealisedPnl |-> R(5),
        side |-> "Buy"],
       [symbol |-> "XYZUSDT", size |-> R(-1), avgPrice |-> 100,
        markPrice |-> [empty |-> FALSE, value |-> 110], unrealisedPnl |-> R(5),
        side |-> "Sell"],
       [symbol |-> "ABCUSDT", size |-> R(2), avgPrice |-> 100,
        markPrice |-> [empty |-> FALSE, value |-> 90], unrealisedPnl |-> NaN,
        side |-> "Sell"]>>}

\* what the venue may answer to a request
DashAnswersTo(req) ==
    IF req = "/api/v3/account" THEN Accounts
    ELSE IF req = "/api/v3/openOrders" THEN OpenOrderLists
    ELSE IF req = "/api/v3/ticker/price" THEN TickerTables
    ELSE IF req = "/fapi/v2/account" THEN FuturesAccounts
    ELSE IF req = "/fapi/v2/positionRisk" THEN PositionRisks
    ELSE IF req = "/v5/account/wallet-balance" THEN BybitWallets
    ELSE BybitPositions

OpenSizedAll(trades) == trades

\* .filter((t) => Number.isFinite(t.positionSize) && t.positionSize > 0)
OpenSized(trades) ==
    SelectSeq(trades, LAMBDA t : IsFinite(t.positionSize) /\ t.positionSize[1] > 0)

\* a * b of two numbers either of which may be NaN
Times(a, b) == IF IsFinite(a) /\ IsFinite(b) THEN RMul(a, b) ELSE NaN

\* Math.abs(a); NaN stays NaN
RAbs(a) == <<Abs(a[1]), a[2]>>

\* lines 384-402: running trades of the futures positions
BinanceRunningTrades(positions) ==
    OpenSized([i \in DOMAIN positions |->
        LET p == positions[i]
            rawAmt == p.positionAmt
            positionSize == RAbs(rawAmt)
            entryPrice == p.entryPrice
            currentPrice == IF p.markPrice.empty THEN p.entryPrice ELSE p.markPrice.value
            direction == IF IsFinite(rawAmt) /\ rawAmt[1] >= 0 THEN 1 ELSE -1
            fallbackPnl == Times(Times(R(currentPrice - entryPrice), positionSize), R(direction))
        IN [symbol |-> p.symbol, entryPrice |-> R(entryPrice),
            currentPrice |-> R(currentPrice),
            pnl |-> IF IsFinite(p.unRealizedProfit) THEN p.unRealizedProfit
                    ELSE fallbackPnl,
            positionSize |-> positionSize]])

\* lines 410-426: running trades of the spot open orders
OrderRunningTrades(openOrders, tickers) ==
    OpenSized([i \in DOMAIN openOrders |->
        LET order == openOrders[i]
            entryPrice == R(order.price)
            currentPrice == IF TickerHas(tickers, order.symbol)
                            THEN TickerGet(tickers, order.symbol) ELSE entryPrice
            direction == IF order.side = "BUY" THEN 1 ELSE -1
        IN [symbol |-> order.symbol, entryPrice |-> entryPrice,
            currentPrice |-> currentPrice,
            pnl |-> Times(Times(RSub(currentPrice, entryPrice), order.origQty), R(direction)),
            positionSize |-> order.origQty]])

\* lines 289-305: running trades of the Bybit positions
BybitRunningTrades(positions) ==
    OpenSized([i \in DOMAIN positions |->
        LET p == positions[i]
            size == p.size
            entryPrice == p.avgPrice
            currentPrice == IF p.markPrice.empty THEN p.avgPrice ELSE p.markPrice.value
            side == IF p.side = "Sell" THEN -1 ELSE 1
            fallbackPnl == Times(Times(R(currentPrice - entryPrice), size), R(side))
        IN [symbol |-> p.symbol, entryPrice |-> R(entryPrice),
            currentPrice |-> R(currentPrice),
            pnl |-> IF IsFinite(p.unrealisedPnl) THEN p.unrealisedPnl ELSE fallbackPnl,
            positionSize |-> size]])

\* lines 282-314: the DashboardData of the Bybit answers
BybitDashboard(wallet, positions) ==
    LET spotBalance == RSum(wallet.coin)
        futuresBalance == IF wallet.hasTotalWalletBalance THEN wallet.totalWalletBalance
                          ELSE spotBalance
        totalBalance == IF IsFinite(futuresBalance) THEN futuresBalance ELSE spotBalance
    IN [accountBalance |-> totalBalance, spotBalance |-> spotBalance,
        futuresBalance |-> totalBalance, totalBalance |-> totalBalance,
        futuresAvailable |-> TRUE, runningTrades |-> BybitRunningTrades(positions)]

\* lines 372-429 with the futures leg settled and `trades` from positionRisk
DashboardOf(data, futuresBalance, futuresAvailable, trades) ==
    LET totalBalance == RAdd(data.spotBalance, futuresBalance)
    IN [accountBalance |-> totalBalance, spotBalance |-> data.spotBalance,
        futuresBalance |-> futuresBalance, totalBalance |-> totalBalance,
        futuresAvailable |-> futuresAvailable,
        runningTrades |-> IF trades # <<>> THEN trades
                          ELSE OrderRunningTrades(dashAnswers["/api/v3/openOrders"],
                                                  dashAnswers["/api/v3/ticker/price"])]

HInit ==
    /\ dashExchange \in {"binance", "binance_us", "bybit"}
    /\ dashPc = "call" /\ dashInFlight = {} /\ dashAnswers = <<>> /\ dashRejected = {}
    /\ dashOutcome = "none" /\ dashData = NoData

\* entry: the initial Promise.all of the venue
DashCall ==
    /\ dashPc = "call"
    /\ dashInFlight' = IF dashExchange = "bybit"
                       THEN {"/v5/account/wallet-balance", "/v5/position/list"}
                       ELSE {"/api/v3/account", "/api/v3/openOrders", "/api/v3/ticker/price"}
    /\ dashPc' = "initial"
    /\ UNCHANGED <<dashExchange, dashAnswers, dashRejected, dashOutcome, dashData>>
    /\ UNCHANGED othersH

\* an initial call answers; after the last, Bybit returns its snapshot, and
\* Binance values the spot balances, then asks the futures account (binance)
\* or returns (binance_us)
DashInitialAnswer ==
    /\ dashPc = "initial"
    /\ \E req \in dashInFlight : \E data \in DashAnswersTo(req) :
        LET got == MapSet(dashAnswers, req, data)
        IN /\ dashAnswers' = got
           /\ IF dashInFlight # {req}
              THEN /\ dashInFlight' = dashInFlight \ {req}
                   /\ UNCHANGED <<dashPc, dashOutcome, dashData>>
              ELSE IF dashExchange = "bybit"
              THEN /\ dashData' = BybitDashboard(got["/v5/account/wallet-balance"],
                                                 got["/v5/position/list"])
                   /\ dashOutcome' = "returned" /\ dashPc' = "done" /\ dashInFlight' = {}
              ELSE LET spot == [NoData EXCEPT !.spotBalance =
                                   SpotBalance(dashExchange, got["/api/v3/ticker/price"],
                                               got["/api/v3/account"])]
                   IN IF GetFuturesBaseUrl(dashExchange) # ""
                      THEN /\ dashData' = spot
                           /\ dashInFlight' = {"/fapi/v2/account"}
                           /\ dashPc' = "futures"
                           /\ UNCHANGED dashOutcome
                      ELSE /\ dashData' =
                                 [spot EXCEPT !.totalBalance = spot.spotBalance,
                                              !.accountBalance = spot.spotBalance,
                                              !.runningTrades =
                                                  OrderRunningTrades(got["/api/v3/openOrders"],
                                                                     got["/api/v3/ticker/price"])]
                           /\ dashOutcome' = "returned" /\ dashPc' = "done"
                           /\ dashInFlight' = {}
    /\ UNCHANGED <<dashExchange, dashRejected>>
    /\ UNCHANGED othersH

\* an initial call rejects: the Promise.all rejects and the error leaves the
\* function
DashInitialReject ==
    /\ dashPc = "initial"
    /\ \E req \in dashInFlight : dashRejected' = dashRejected \cup {req}
    /\ dashOutcome' = "failed" /\ dashPc' = "done"
    /\ UNCHANGED <<dashExchange, dashInFlight, dashAnswers, dashData>>
    /\ UNCHANGED othersH

\* lines 359-365 and 379: the futures account answers, positionRisk is asked
DashFuturesAnswer ==
    /\ dashPc = "futures"
    /\ \E data \in DashAnswersTo("/fapi/v2/account") :
        /\ dashAnswers' = MapSet(dashAnswers, "/fapi/v2/account", data)
        /\ dashData' = [dashData EXCEPT !.futuresBalance = data.totalWalletBalance,
                                        !.futuresAvailable = TRUE]
    /\ dashInFlight' = {"/fapi/v2/positionRisk"}
    /\ dashPc' = "positions"
    /\ UNCHANGED <<dashExchange, dashRejected, dashOutcome>>
    /\ UNCHANGED othersH

\* lines 366-370 and 379: the futures account rejects, positionRisk is asked
DashFuturesReject ==
    /\ dashPc = "futures"
    /\ dashRejected' = dashRejected \cup {"/fapi/v2/account"}
    /\ dashData' = [dashData EXCEPT !.futuresBalance = R(0), !.futuresAvailable = FALSE]
    /\ dashInFlight' = {"/fapi/v2/positionRisk"}
    /\ dashPc' = "positions"
    /\ UNCHANGED <<dashExchange, dashAnswers, dashOutcome>>
    /\ UNCHANGED othersH

\* positionRisk answers: the snapshot is returned
DashPositionsAnswer ==
    /\ dashPc = "positions"
    /\ \E data \in DashAnswersTo("/fapi/v2/positionRisk") :
        /\ dashAnswers' = MapSet(dashAnswers, "/fapi/v2/positionRisk", data)
        /\ dashData' = DashboardOf(dashData, dashData.futuresBalance,
                                   dashData.futuresAvailable, BinanceRunningTrades(data))
    /\ dashOutcome' = "returned" /\ dashPc' = "done" /\ dashInFlight' = {}
    /\ UNCHANGED <<dashExchange, dashRejected>>
    /\ UNCHANGED othersH

\* positionRisk rejects: the snapshot is returned with the open orders
DashPositionsReject ==
    /\ dashPc = "positions"
    /\ dashRejected' = dashRejected \cup {"/fapi/v2/positionRisk"}
    /\ dashData' = DashboardOf(dashData, dashData.futuresBalance,
                               dashData.futuresAvailable, <<>>)
    /\ dashOutcome' = "returned" /\ dashPc' = "done" /\ dashInFlight' = {}
    /\ UNCHANGED <<dashExchange, dashAnswers>>
    /\ UNCHANGED othersH

InitDashboard == HInit /\ CoreIdle /\ GIdle /\ KIdle /\ LIdle /\ NIdle

NextDashboard ==
    \/ DashCall \/ DashInitialAnswer \/ DashInitialReject
    \/ DashFuturesAnswer \/ DashFuturesReject
    \/ DashPositionsAnswer \/ DashPositionsReject

SpecDashboard == InitDashboard /\ [][NextDashboard]_vars

\* fetchDashboardData has returned on the Binance path
DashReturned == dashPc = "done" /\ dashOutcome = "returned" /\ dashExchange # "bybit"

\* the asset has neither a direct nor an inverse pair against the quote
NoQuotePair(tickers, asset, quote) ==
    ~TickerHas(tickers, asset \o quote) /\ ~TickerHas(tickers, quote \o asset)

\* C14: a single balance of an asset that has no direct and no inverse pair
\* against the quote currency but a pair against the bridge asset USDT, itself
\* priced in the quote currency, is valued at
\* amount * (asset-to-bridge price) * (bridge-to-quote price).
C14_BridgeValuation ==
    DashReturned =>
        LET balances == dashAnswers["/api/v3/account"]
            tickers == dashAnswers["/api/v3/ticker/price"]
            quote == PreferredQuote(dashExchange)
            asset == balances[1].asset
            amount == BalanceTotal(balances[1])
        IN (/\ Len(balances) = 1 /\ IsFinite(amount) /\ amount[1] > 0
            /\ asset \notin StableCoins /\ quote # "USDT"
            /\ NoQuotePair(tickers, asset, quote)
            /\ TickerTruthy(tickers, asset \o "USDT")
            /\ TickerTruthy(tickers, "USDT" \o quote))
               => dashData.spotBalance =
                      RMul(RMul(amount, TickerGet(tickers, asset \o "USDT")),
                           TickerGet(tickers, "USDT" \o quote))

\* no conversion path: not a stable or quote asset and no direct, inverse or
\* bridge pair in the ticker table
NoPath(tickers, asset, quote) ==
    /\ asset \notin StableCoins /\ asset # quote
    /\ NoQuotePair(tickers, asset, quote) /\ NoQuotePair(tickers, asset, "USDT")

\* the balances without the i-th
WithoutBalance(balances, i) ==
    [j \in 1 .. Len(balances) - 1 |-> IF j < i THEN balances[j] ELSE balances[j + 1]]

\* the spot value has been computed
SpotValued == dashExchange # "bybit" /\ (dashPc \in {"futures", "positions"} \/ DashReturned)

\* C15: an asset with no conversion path adds exactly 0 to the spot value (the
\* spot value is that of the other balances alone), and the call fails only
\* when one of its initial requests is rejected.
C15_UnconvertibleIsZero ==
    /\ SpotValued =>
           LET balances == dashAnswers["/api/v3/account"]
               tickers == dashAnswers["/api/v3/ticker/price"]
           IN \A i \in DOMAIN balances :
                  NoPath(tickers, balances[i].asset, PreferredQuote(dashExchange))
                      => dashData.spotBalance =
                             SpotBalance(dashExchange, tickers, WithoutBalance(balances, i))
    /\ (dashExchange \in {"binance", "binance_us"} /\ dashOutcome = "failed")
           => dashRejected \cap {"/api/v3/account", "/api/v3/openOrders",
                                 "/api/v3/ticker/price"} # {}

\* a snapshot returned for an unconvertible balance of 4 XYZ next to a
\* convertible balance of ABC
C15_Witness ==
    /\ DashReturned
    /\ LET balances == dashAnswers["/api/v3/account"]
           tickers == dashAnswers["/api/v3/ticker/price"]
       IN /\ Len(balances) = 2
          /\ \E i \in DOMAIN balances :
                 /\ balances[i].asset = "XYZ" /\ BalanceTotal(balances[i]) = R(4)
                 /\ NoPath(tickers, "XYZ", PreferredQuote(dashExchange))
          /\ dashData.spotBalance # R(0)

\* the calls of the derivatives leg: the futures account of Binance; on Bybit
\* the unified wallet (totalWalletBalance) and the linear position list
DerivativesCalls == {"/fapi/v2/account", "/v5/account/wallet-balance", "/v5/position/list"}

\* C16: on every venue, when a call of the derivatives leg has been rejected,
\* fetchDashboardData ends by returning a snapshot with futuresAvailable false
\* whose total is the spot value, the one the spot answers give also when the
\* derivatives leg succeeds.
C16_DerivativesOutageDegrades ==
    (dashPc = "done" /\ dashRejected \cap DerivativesCalls # {})
        => /\ dashOutcome = "returned"
           /\ dashData.futuresAvailable = FALSE
           /\ dashData.totalBalance = dashData.spotBalance
           /\ dashExchange = "binance"
                  => dashData.spotBalance =
                         SpotBalance(dashExchange, dashAnswers["/api/v3/ticker/price"],
                                     dashAnswers["/api/v3/account"])

\* a venue row seen as the claim sees it: its symbol, its size, the unrealized
\* figure the venue reports for it (NaN if none) and its direction
Row(symbol, size, reported, direction) ==
    [symbol |-> symbol, size |-> size, reported |-> reported, direction |-> direction]

RowsOf(list, row(_)) == {row(list[i]) : i \in DOMAIN list}

BybitRows ==
    RowsOf(dashAnswers["/v5/position/list"],
           LAMBDA p : Row(p.symbol, p.size, p.unrealisedPnl,
                          IF p.side = "Sell" THEN -1 ELSE 1))

PositionRows ==
    IF "/fapi/v2/positionRisk" \in DOMAIN dashAnswers
    THEN RowsOf(dashAnswers["/fapi/v2/positionRisk"],
                LAMBDA p : Row(p.symbol, RAbs(p.positionAmt), p.unRealizedProfit,
                               IF IsFinite(p.positionAmt) /\ p.positionAmt[1] < 0
                               THEN -1 ELSE 1))
    ELSE {}

OrderRows ==
    RowsOf(dashAnswers["/api/v3/openOrders"],
           LAMBDA o : Row(o.symbol, o.origQty, NaN, IF o.side = "SELL" THEN -1 ELSE 1))

Sized(rws) == {r \in rws : IsFinite(r.size) /\ r.size[1] > 0}

\* the rows the returned running trades are made of: the positions, or on
\* Binance the open orders when no position is open
DashRows ==
    IF dashExchange = "bybit" THEN BybitRows
    ELSE IF Sized(PositionRows) # {} THEN PositionRows
    ELSE OrderRows

\* C24: every RunningTrade returned by fetchDashboardData has a finite
\* positionSize > 0 (it is made of a position or order of that size; rows of
\* zero, negative or non-finite size are left out), and its pnl is the
\* unrealized figure the venue reports when that is finite, otherwise
\* (currentPrice - entryPrice) * positionSize * direction with direction -1 for
\* short/sell and +1 otherwise.
C24_RunningTrades ==
    (dashPc = "done" /\ dashOutcome = "returned") =>
        /\ \A i \in DOMAIN dashData.runningTrades :
              LET t == dashData.runningTrades[i]
              IN /\ IsFinite(t.positionSize) /\ t.positionSize[1] > 0
                 /\ \E r \in Sized(DashRows) :
                       /\ r.symbol = t.symbol /\ r.size = t.positionSize
                       /\ t.pnl = (IF IsFinite(r.reported) THEN r.reported
                                   ELSE RMul(RMul(RSub(t.currentPrice, t.entryPrice),
                                                  t.positionSize), R(r.direction)))
        /\ Len(dashData.runningTrades) <= Cardinality(Sized(DashRows))

\* Bybit answered a position of non-finite size, one of negative size and a
\* short of 2 without an unrealized figure, entered at 100 and marked at 90:
\* one running trade, pnl 20
C24_Witness ==
    /\ dashPc = "done" /\ dashOutcome = "returned" /\ dashExchange = "bybit"
    /\ Len(dashAnswers["/v5/position/list"]) = 3
    /\ ~IsFinite(dashAnswers["/v5/position/list"][1].size)
    /\ dashAnswers["/v5/position/list"][2].size = R(-1)
    /\ Len(dashData.runningTrades) = 1
    /\ dashData.runningTrades[1].positionSize = R(2)
    /\ dashData.runningTrades[1].pnl = R(20)

---------------------------------------------------------------------------
(* Symbol discovery of fetchAllTradeHistory                                 *)

\* line 574: slice(0, 60)
MaxCandidates == 60

\* every catalog entry taken for a tradeable one
IsTradingAnyStatus(entry) == TRUE

\* line 549: s.status === 'TRADING'
IsTrading(entry) == entry.status = "TRADING"

\* tradingSet
TradingSet(exchangeInfo) ==
    {exchangeInfo[i].symbol : i \in {j \in DOMAIN exchangeInfo : IsTrading(exchangeInfo[j])}}

\* nonZeroAssets, in insertion order
NonZeroAssets(balances) ==
    LET held == SelectSeq(balances, LAMBDA b : IsFinite(BalanceTotal(b)) /\ BalanceTotal(b)[1] > 0)
    IN Unique([i \in DOMAIN held |-> held[i].asset])

QuotePriority(ex) ==
    IF ex = "binance_us" THEN <<"USD", "USDT", "USDC", "BTC", "ETH", "BNB">>
    ELSE <<"USDT", "FDUSD", "USDC", "BUSD", "BTC", "ETH", "BNB">>

\* lines 564-570 for one asset and one quote: the symbols added, in order
PairCandidates(tradingSet, asset, quote) ==
    IF asset = quote THEN <<>>
    ELSE (IF (asset \o quote) \in tradingSet THEN <<asset \o quote>> ELSE <<>>)
             \o (IF (quote \o asset) \in tradingSet THEN <<quote \o asset>> ELSE <<>>)

\* lines 561-574: candidates in insertion order, cut to the first 60
DiscoverSymbols(a) ==
    LET tradingSet == TradingSet(a.exchangeInfo)
        assets == NonZeroAssets(a.account)
        quotes == QuotePriority(a.exchange)
        ofOrders == [i \in DOMAIN a.openOrders |-> a.openOrders[i].symbol]
        ofAssets == Flatten([i \in DOMAIN assets |->
                        Flatten([j \in DOMAIN quotes |->
                            PairCandidates(tradingSet, assets[i], quotes[j])])])
        candidates == Unique(ofOrders \o ofAssets)
    IN SubSeq(candidates, 1, Min(MaxCandidates, Len(candidates)))

CatalogEntry(base, quote, status) ==
    [symbol |-> base \o quote, status |-> status, baseAsset |-> base, quoteAsset |-> quote]

\* answers of /api/v3/exchangeInfo
Catalogs ==
    {<<>>,
     <<CatalogEntry("BTC", "USDT", "TRADING"), CatalogEntry("ETH", "USDT", "BREAK")>>,
     <<CatalogEntry("BTC", "USDT", "TRADING"), CatalogEntry("ETH", "BTC", "TRADING"),
       CatalogEntry("ETH", "USDT", "TRADING")>>,
     <<CatalogEntry("BTC", "USD", "TRADING"), CatalogEntry("USDT", "USD", "TRADING"),
       CatalogEntry("ETH", "BTC", "BREAK")>>}

Holding(asset, free, locked) == [asset |-> asset, free |-> free, locked |-> locked]

\* answers of /api/v3/account
DiscoveryAccounts ==
    {<<>>,
     <<Holding("BTC", R(1), R(0))>>,
     <<Holding("BTC", R(0), R(0)), Holding("ETH", <<1, 2>>, R(1))>>,
     <<Holding("USDT", R(5), R(0)), Holding("BTC", R(0), R(2)), Holding("ETH", NaN, R(0))>>,
     <<Holding("ETH", R(1), R(0)), Holding("BTC", R(1), R(0)), Holding("ETH", R(2), R(0))>>}

Order(symbol) == [symbol |-> symbol, price |-> 1, origQty |-> 1, side |-> "BUY"]

\* answers of /api/v3/openOrders: none, one, orders repeating a symbol, an
\* order on a symbol the catalog does not list as TRADING, and more distinct
\* symbols than the cap
DiscoveryOrders ==
    {<<>>,
     <<Order("BTCUSDT")>>,
     <<Order("ETHUSDT"), Order("XRPUSDT"), Order("ETHUSDT")>>,
     [i \in 1 .. MaxCandidates + 1 |-> Order("ALT" \o ToString(i) \o "USDT")]}

KInit ==
    /\ discArgs \in [fn : {"fetchAllTradeHistory"}, exchange : {"binance", "binance_us"},
                     exchangeInfo : Catalogs, account : DiscoveryAccounts,
                     openOrders : DiscoveryOrders]
    /\ discPc = "answered" /\ discSymbols = <<>>

\* lines 549-574
Discover ==
    /\ discPc = "answered"
    /\ discSymbols' = DiscoverSymbols(discArgs)
    /\ discPc' = "done"
    /\ UNCHANGED discArgs
    /\ UNCHANGED othersK

InitDiscovery == KInit /\ CoreIdle /\ GIdle /\ HIdle /\ LIdle /\ NIdle

NextDiscovery == Discover

SpecDiscovery == InitDiscovery /\ [][NextDiscovery]_vars

\* the symbols of the open orders
OrderSymbols == {discArgs.openOrders[i].symbol : i \in DOMAIN discArgs.openOrders}

\* the assets with a nonzero free + locked balance
HeldAssets ==
    {discArgs.account[i].asset :
        i \in {j \in DOMAIN discArgs.account :
                  /\ IsFinite(BalanceTotal(discArgs.account[j]))
                  /\ BalanceTotal(discArgs.account[j]) # R(0)}}

\* asset+quote and quote+asset of a held asset and a priority quote, listed
\* in the catalog with status TRADING
TradeablePairs ==
    LET quotes == {QuotePriority(discArgs.exchange)[j] :
                      j \in DOMAIN QuotePriority(discArgs.exchange)}
        listed == {discArgs.exchangeInfo[i].symbol :
                      i \in {j \in DOMAIN discArgs.exchangeInfo :
                                discArgs.exchangeInfo[j].status = "TRADING"}}
    IN UNION {IF a = q THEN {} ELSE {a \o q, q \o a} : a \in HeldAssets, q \in quotes}
           \cap listed

\* C17: the candidate list has no duplicates and at most 60 entries, each the
\* symbol of an open order or a TRADING pair of a held asset with a priority
\* quote; when these symbols number at most 60, all of them are in the list.
C17_CandidateList ==
    discPc = "done" =>
        /\ \A i, j \in DOMAIN discSymbols : discSymbols[i] = discSymbols[j] => i = j
        /\ Len(discSymbols) <= 60
        /\ \A i \in DOMAIN discSymbols : discSymbols[i] \in OrderSymbols \cup TradeablePairs
        /\ Cardinality(OrderSymbols \cup TradeablePairs) <= 60
               => \A sym \in OrderSymbols \cup TradeablePairs :
                      \E i \in DOMAIN discSymbols : discSymbols[i] = sym

\* a list made of an order's symbol and of direct and inverse pairs, with a
\* catalog entry that is not TRADING left out
C17_Witness ==
    /\ discPc = "done"
    /\ \E i \in DOMAIN discSymbols : discSymbols[i] \in OrderSymbols \ TradeablePairs
    /\ \E i \in DOMAIN discSymbols : discSymbols[i] \in TradeablePairs \ OrderSymbols
    /\ \E i \in DOMAIN discArgs.exchangeInfo : discArgs.exchangeInfo[i].status # "TRADING"

\* the cap has cut the list
C17_WitnessCap ==
    discPc = "done" /\ Len(discSymbols) = 60 /\ Cardinality(OrderSymbols) > 60

---------------------------------------------------------------------------
(* The ledger under repeated imports: appReducer IMPORT_TRADES              *)

\* the venue holds up to this many fills of the symbol, fill i at time i
MaxLedgerFills == 4

\* imports dispatched in one trace
MaxImports == 2

LedgerSetOverwrite(map, trade) ==
    IF \E i \in DOMAIN map : map[i].id = trade.id
    THEN [i \in DOMAIN map |-> IF map[i].id = trade.id THEN trade ELSE map[i]]
    ELSE Append(map, trade)

\* merged.set(id, value) on the Map in insertion order
LedgerSet(map, trade) ==
    IF \E i \in DOMAIN map : map[i].id = trade.id
    THEN [i \in DOMAIN map |->
             IF map[i].id = trade.id
             THEN [trade EXCEPT !.category = map[i].category, !.notes = map[i].notes]
             ELSE map[i]]
    ELSE Append(map, trade)

RECURSIVE LedgerMerge(_, _)
\* action.payload.forEach(...) on the Map `merged`
LedgerMerge(map, payload) ==
    IF payload = <<>> THEN map
    ELSE LedgerMerge(LedgerSet(map, Head(payload)), Tail(payload))

\* case 'IMPORT_TRADES'
ImportTrades(trades, payload) == SortNewestFirst(LedgerMerge(trades, payload))

LedgerSpotShapes == [isBuyer : BOOLEAN, price : {100}, qty : {1}, commission : {0}]

LedgerFutShapes ==
    [side : {"BUY", "SELL"}, positionSide : {"LONG"}, price : {100}, qty : {1},
     realizedPnl : {0}]

\* the Trades an import of the range yields
ImportOf(source, fills, r) ==
    IF source = "fetchTradeHistory"
    THEN ToRealizedTrades(InRange(fills, r.startTime, r.endTime))
    ELSE NetUserTrades(SortByTime(InRange(fills, r.startTime, r.endTime)))

LedgerRanges ==
    {r \in [startTime : 1 .. MaxLedgerFills, endTime : 1 .. MaxLedgerFills] :
        r.startTime <= r.endTime}

LInit ==
    /\ ledgerSource \in {"fetchTradeHistory", "fetchFuturesPositionHistory"}
    /\ IF ledgerSource = "fetchTradeHistory"
       THEN \E shapes \in SeqsUpTo(MaxLedgerFills, LedgerSpotShapes) :
                ledgerFills = [i \in DOMAIN shapes |-> SpotFill(shapes[i], i)]
       ELSE \E shapes \in SeqsUpTo(MaxLedgerFills, LedgerFutShapes) :
                ledgerFills = [i \in DOMAIN shapes |-> FutFill(shapes[i], i)]
    /\ ledger = <<>> /\ ledgerPayload = <<>> /\ ledgerImports = 0
    /\ ledgerAction = "none" /\ ledgerBefore = <<>>

\* an import of a range the user picked, dispatched as IMPORT_TRADES
LedgerImport ==
    /\ ledgerImports < MaxImports
    /\ \E r \in LedgerRanges :
        /\ ledgerPayload' = ImportOf(ledgerSource, ledgerFills, r)
        /\ ledger' = ImportTrades(ledger, ledgerPayload')
    /\ ledgerImports' = ledgerImports + 1
    /\ ledgerAction' = "IMPORT_TRADES" /\ ledgerBefore' = ledger
    /\ UNCHANGED <<ledgerSource, ledgerFills>>
    /\ UNCHANGED othersL

\* createId(): the time and a random suffix, an id no imported trade has
CreateId == <<"manual", 0, 0>>

\* the trade the Journal's form adds: closed before every fill of the venue
ManualTrade ==
    [id |-> <<"form", 0, 0>>, symbol |-> SpotSymbol, entryPrice |-> R(100),
     exitPrice |-> R(110), size |-> 1, timestamp |-> ToISOString(0), pnl |-> R(10),
     category |-> "Scalp", notes |-> "", source |-> "Manual"]

\* case 'ADD_TRADE'
AddTrade(trades, payload) == <<[payload EXCEPT !.id = CreateId]>> \o trades

\* case 'UPDATE_TRADE_CATEGORY'
UpdateTradeCategory(trades, id, category) ==
    [i \in DOMAIN trades |->
        IF trades[i].id = id THEN [trades[i] EXCEPT !.category = category] ELSE trades[i]]

\* case 'DELETE_TRADE'
DeleteTrade(trades, id) == SelectSeq(trades, LAMBDA t : t.id # id)

\* the user adds a trade by hand (one hand-made trade at a time)
LedgerAdd ==
    /\ \A i \in DOMAIN ledger : ledger[i].id # CreateId
    /\ ledger' = AddTrade(ledger, ManualTrade)
    /\ ledgerAction' = "ADD_TRADE" /\ ledgerBefore' = ledger
    /\ UNCHANGED <<ledgerSource, ledgerFills, ledgerPayload, ledgerImports>>
    /\ UNCHANGED othersL

\* the user files a trade that has no category yet under "Swing"
LedgerCategory ==
    /\ \E i \in DOMAIN ledger :
        /\ ledger[i].category = "Uncategorized"
        /\ ledger' = UpdateTradeCategory(ledger, ledger[i].id, "Swing")
    /\ ledgerAction' = "UPDATE_TRADE_CATEGORY" /\ ledgerBefore' = ledger
    /\ UNCHANGED <<ledgerSource, ledgerFills, ledgerPayload, ledgerImports>>
    /\ UNCHANGED othersL

\* the user deletes the trade at the top of the list
LedgerDelete ==
    /\ ledger # <<>>
    /\ ledger' = DeleteTrade(ledger, ledger[1].id)
    /\ ledgerAction' = "DELETE_TRADE" /\ ledgerBefore' = ledger
    /\ UNCHANGED <<ledgerSource, ledgerFills, ledgerPayload, ledgerImports>>
    /\ UNCHANGED othersL

InitLedger == LInit /\ CoreIdle /\ GIdle /\ HIdle /\ KIdle /\ NIdle

NextLedger == LedgerImport \/ LedgerAdd \/ LedgerCategory \/ LedgerDelete

SpecLedger == InitLedger /\ [][NextLedger]_vars

\* C18: no two Trades of one import share an id, and a realized close (the
\* venue's fills have distinct times, so a close is known by its symbol and
\* timestamp) has one ledger entry however often and over whichever ranges it
\* was imported.
C18_OneEntryPerClose ==
    /\ \A i, j \in DOMAIN ledgerPayload : ledgerPayload[i].id = ledgerPayload[j].id => i = j
    /\ \A i, j \in DOMAIN ledger :
           (ledger[i].symbol = ledger[j].symbol /\ ledger[i].timestamp = ledger[j].timestamp)
               => i = j

\* the position of the trade with this id in the list, 0 if it has none
IndexOfId(trades, id) ==
    IF \E i \in DOMAIN trades : trades[i].id = id
    THEN CHOOSE i \in DOMAIN trades : trades[i].id = id
    ELSE 0

NewestFirst(trades) ==
    \A i, j \in DOMAIN trades :
        i < j => GetTime(trades[i].timestamp) >= GetTime(trades[j].timestamp)

\* C28: IMPORT_TRADES is idempotent and non-destructive. After it the list has
\* at most one trade per id, every trade it had whose id is not in the payload
\* is still there as it was, every trade it had whose id is in the payload has
\* kept its category, the list is sorted by timestamp descending, and
\* dispatching the same payload again would leave the list as it is.
C28_ImportIdempotentNonDestructive ==
    ledgerAction = "IMPORT_TRADES" =>
        /\ \A i, j \in DOMAIN ledger : ledger[i].id = ledger[j].id => i = j
        /\ \A i \in DOMAIN ledgerBefore :
               LET old == ledgerBefore[i]
                   at == IndexOfId(ledger, old.id)
               IN /\ at # 0
                  /\ IF IndexOfId(ledgerPayload, old.id) = 0
                     THEN ledger[at] = old
                     ELSE ledger[at].category = old.category
        /\ NewestFirst(ledger)
        /\ ImportTrades(ledger, ledgerPayload) = ledger

\* an import has just merged a payload into a list that held a trade the user
\* had filed under "Swing" and that the payload brings again, and a hand-made
\* trade that the payload does not bring and that the sort moved from the front
C28_Witness ==
    /\ ledgerAction = "IMPORT_TRADES"
    /\ \E i \in DOMAIN ledgerBefore :
           /\ ledgerBefore[i].category = "Swing"
           /\ IndexOfId(ledgerPayload, ledgerBefore[i].id) # 0
    /\ ledgerBefore # <<>> /\ ledgerBefore[1].id = CreateId
    /\ ledger[1].id # CreateId
    /\ Len(ledger) > Len(ledgerBefore)

\* the Trades of the symbols that were fetched (and of the futures income, if
\* it was fetched), newest first: what the import returns when every skipped
\* symbol is one that was fetched and had no trades
FetchedTradesOnly ==
    LET fetched == SelectSeq(symbols, LAMBDA sym : sym \notin SkippedSymbols)
        ofSymbols == Flatten([i \in DOMAIN fetched |-> SymbolTrades(fetched[i])])
        ofIncome == IF exchange = "binance" /\ ~(\E r \in skipped : r.kind = "income")
                    THEN IncomeTrades(InRange(venueIncome, range.startTime, range.endTime))
                    ELSE <<>>
    IN SortNewestFirst(ofSymbols \o ofIncome)

\* C19: a result returned after a failed symbol or window was skipped carries
\* a partial-coverage annotation: it is not just the list of the fetched
\* symbols' Trades, which is also what is returned when the skipped symbol
\* was fetched and had no trades.
C19_PartialCoverageAnnotated ==
    (/\ fn = "fetchAllTradeHistory" /\ signal = "clear"
     /\ pc = "done" /\ outcome = "returned" /\ skipped # {})
        => result # FetchedTradesOnly

---------------------------------------------------------------------------
(* Two import requests at once: the netting state of each call              *)

\* fills the venue answers one request with
MaxRunFills == 2

Runs == {1, 2}

Other(r) == 3 - r

RECURSIVE SpotLeft(_, _, _)
\* the position sorted.forEach leaves behind
SpotLeft(sorted, idx, pos) ==
    IF idx >= Len(sorted) THEN pos
    ELSE SpotLeft(sorted, idx + 1, SpotStep(pos, sorted[idx + 1], idx).position)

RECURSIVE FutLeft(_, _, _)
\* the states map allUserTrades.forEach leaves behind
FutLeft(trades, idx, map) ==
    IF idx >= Len(trades) THEN map
    ELSE FutLeft(trades, idx + 1, FutStep(map, trades[idx + 1], idx).states)

\* line 439 and line 767: the state a call creates for itself
FreshNettingState(f) ==
    IF f = "fetchTradeHistory" THEN [qty |-> 0, avgPrice |-> R(0)] ELSE <<>>

\* one netting state kept outside the calls: a call goes on where the last
\* one stopped
NettingStateShared(r) ==
    IF runPc[Other(r)] = "done" THEN runState[Other(r)] ELSE FreshNettingState(runFn)

\* the state call r nets on: its own, created in the call
NettingState(r) == FreshNettingState(runFn)

\* the Trades a call returns for the fills, netting from `state`
NetFrom(f, fills, state) ==
    IF f = "fetchTradeHistory"
    THEN Reverse(SpotFold(SortByTime(fills), 0, state, <<>>))
    ELSE SortNewestFirst(FutFold(SortByTime(fills), 0, state, <<>>))

\* the netting state a call is left with
LeftFrom(f, fills, state) ==
    IF f = "fetchTradeHistory" THEN SpotLeft(SortByTime(fills), 0, state)
    ELSE FutLeft(SortByTime(fills), 0, state)

RunSpotShapes == [isBuyer : BOOLEAN, price : {100, 110}, qty : {1}, commission : {0}]

RunFutShapes ==
    [side : {"BUY", "SELL"}, positionSide : {"LONG"}, price : {100}, qty : {1},
     realizedPnl : {10}]

RunHistories(f) ==
    IF f = "fetchTradeHistory"
    THEN {[i \in DOMAIN shapes |-> SpotFill(shapes[i], i)] :
             shapes \in SeqsUpTo(MaxRunFills, RunSpotShapes)}
    ELSE {[i \in DOMAIN shapes |-> FutFill(shapes[i], i)] :
             shapes \in SeqsUpTo(MaxRunFills, RunFutShapes)}

NInit ==
    /\ runFn \in {"fetchTradeHistory", "fetchFuturesPositionHistory"}
    /\ runFills \in [Runs -> RunHistories(runFn)]
    /\ runPc = [r \in Runs |-> "call"]
    /\ runState = [r \in Runs |-> FreshNettingState(runFn)]
    /\ runResult = [r \in Runs |-> <<>>]

\* a request is called and awaits the venue
RunCall(r) ==
    /\ runPc[r] = "call"
    /\ runPc' = [runPc EXCEPT ![r] = "await"]
    /\ UNCHANGED <<runFn, runFills, runState, runResult>>
    /\ UNCHANGED othersN

\* the venue answers: the call nets the fills in one go and returns
RunAnswer(r) ==
    /\ runPc[r] = "await"
    /\ runResult' = [runResult EXCEPT ![r] = NetFrom(runFn, runFills[r], NettingState(r))]
    /\ runState' = [runState EXCEPT ![r] = LeftFrom(runFn, runFills[r], NettingState(r))]
    /\ runPc' = [runPc EXCEPT ![r] = "done"]
    /\ UNCHANGED <<runFn, runFills>>
    /\ UNCHANGED othersN

InitConcurrent == NInit /\ CoreIdle /\ GIdle /\ HIdle /\ KIdle /\ LIdle

NextConcurrent == \E r \in Runs : RunCall(r) \/ RunAnswer(r)

SpecConcurrent == InitConcurrent /\ [][NextConcurrent]_vars

\* the Trades the import returns for the fills when it runs alone
AloneResult(f, fills) ==
    IF f = "fetchTradeHistory" THEN ToRealizedTrades(fills)
    ELSE NetUserTrades(SortByTime(fills))

---------------------------------------------------------------------------
(* Alert relay server (src/relay-server/index.js): POST /api/sync and the  *)
(* poll() started by every setInterval tick                                 *)

\* line 9: the default of RATE_LIMIT_MAX
RATE_LIMIT_MAX == 120

\* line 10: the default of SIGNATURE_MAX_AGE_MS
SIGNATURE_MAX_AGE_MS == 300000

\* process.env.RELAY_API_KEY
RELAY_API_KEY == "relay-key"

\* Date.now() while the requests are handled
RelayNow == 3 * SIGNATURE_MAX_AGE_MS

\* the most /api/sync requests received
MaxSyncs == 2

\* the most poll() calls started
MaxPolls == 2

\* an X-Relay-Timestamp header: absent, not a number, or milliseconds
NoStamp == [given |-> FALSE, numeric |-> FALSE, ms |-> 0]

TextStamp == [given |-> TRUE, numeric |-> FALSE, ms |-> 0]

Stamp(ms) == [given |-> TRUE, numeric |-> TRUE, ms |-> ms]

RawAlert(id, symbol, targetPrice, type, status) ==
    [id |-> id, symbol |-> symbol, targetPrice |-> targetPrice, type |-> type,
     status |-> status]

\* the alert lists the app syncs: two active alerts; one with an unknown
\* type and status; one already triggered and one without a target price
AlertLists ==
    {<<RawAlert("a", "BTCUSDT", 100, "above", "active"),
       RawAlert("b", "ETHUSDT", 100, "below", "active")>>,
     <<RawAlert("w", "BTCUSDT", 100, "sideways", "paused")>>,
     <<RawAlert("t", "BTCUSDT", 100, "above", "triggered"),
       RawAlert("z", "ETHUSDT", 0, "below", "active")>>}

\* a request body: JSON text of an object, text that is not JSON, or nothing
ObjectBody(deviceId, token, alerts) ==
    [kind |-> "object", deviceId |-> deviceId, exchange |-> "bybit",
     telegramBotToken |-> token, telegramChatId |-> "chat", alerts |-> alerts]

\* the text {}
EmptyObject ==
    [kind |-> "object", deviceId |-> "", exchange |-> "", telegramBotToken |-> "",
     telegramChatId |-> "", alerts |-> <<>>]

EmptyBody == [EmptyObject EXCEPT !.kind = "empty"]

GarbageBody == [EmptyObject EXCEPT !.kind = "garbage"]

\* syncRelayAlerts line 34, verifySignature lines 247-251: the HMAC of
\* `${timestamp}.${rawBody}`
RelaySignature(timestamp, rawBody, apiKey) == HmacSHA256(<<timestamp, rawBody>>, apiKey)

SyncRequest(key, timestamp, signature, body) ==
    [given |-> TRUE, key |-> key, timestamp |-> timestamp, signature |-> signature,
     body |-> body]

\* what syncRelayAlerts sends for a body with the app's key and clock
SignedRequest(apiKey, timestamp, body) ==
    SyncRequest(apiKey, timestamp, RelaySignature(timestamp, body, apiKey), body)

Devices == {"d1", "d2"}

\* the requests the server receives: the app's own, and requests that differ
\* from one of them in the key, the timestamp, the signature or the body
SyncRequests ==
    LET now == Stamp(RelayNow)
        body == ObjectBody("d1", "token", CHOOSE l \in AlertLists : Len(l) = 1)
        other == ObjectBody("d2", "token", CHOOSE l \in AlertLists : Len(l) = 1)
    IN {SignedRequest(RELAY_API_KEY, now, ObjectBody(d, IF d = "d1" THEN "token" ELSE "", l)) :
            d \in Devices, l \in AlertLists}
       \cup {SignedRequest(RELAY_API_KEY, now, ObjectBody("", "token", <<>>))}
       \cup {SignedRequest("other-key", now, body),
             SyncRequest("", now, RelaySignature(now, body, RELAY_API_KEY), body),
             SyncRequest("other-key", now, RelaySignature(now, body, RELAY_API_KEY), body)}
       \cup {SignedRequest(RELAY_API_KEY, t, body) :
                t \in {Stamp(RelayNow - SIGNATURE_MAX_AGE_MS),
                       Stamp(RelayNow - SIGNATURE_MAX_AGE_MS - 1),
                       Stamp(RelayNow + SIGNATURE_MAX_AGE_MS + 1),
                       TextStamp, NoStamp}}
       \cup {SyncRequest(RELAY_API_KEY, now, sig, body) :
                sig \in {<<>>,
                         RelaySignature(now, other, RELAY_API_KEY),
                         RelaySignature(now, body, "other-key"),
                         RelaySignature(Stamp(RelayNow - 1), body, RELAY_API_KEY)}}
       \cup {SignedRequest(RELAY_API_KEY, now, GarbageBody),
             SyncRequest(RELAY_API_KEY, now, <<>>, GarbageBody),
             SignedRequest(RELAY_API_KEY, now, EmptyBody),
             SyncRequest(RELAY_API_KEY, now, RelaySignature(now, EmptyObject, RELAY_API_KEY),
                         EmptyBody)}

\* isAuthorized(req)
IsAuthorized(req) == req.key # "" /\ req.key = RELAY_API_KEY

\* parseBody(req): rejected ('Invalid JSON'), or raw: data || '{}' and parsed
ParseBody(body) ==
    IF body.kind = "garbage" THEN [ok |-> FALSE, raw |-> body, parsed |-> EmptyObject]
    ELSE IF body.kind = "empty" THEN [ok |-> TRUE, raw |-> EmptyObject, parsed |-> EmptyObject]
    ELSE [ok |-> TRUE, raw |-> body, parsed |-> body]

VerifySignatureSkipped(req, rawBody) == TRUE

\* verifySignature(req, rawBody)
VerifySignature(req, rawBody) ==
    /\ req.timestamp.given /\ req.signature # <<>>
    /\ req.timestamp.numeric
    /\ Abs(RelayNow - req.timestamp.ms) <= SIGNATURE_MAX_AGE_MS
    /\ req.signature = RelaySignature(req.timestamp, rawBody, RELAY_API_KEY)

\* normalizeExchange(exchange)
NormalizeExchange(ex) ==
    IF ex \in {"binance", "binance_us", "bybit"} THEN ex ELSE "binance"

\* normalizeAlert(raw): the alert in a list of its own, or no alert (null)
NormalizeAlert(raw) ==
    IF raw.symbol = "" \/ raw.targetPrice <= 0 THEN <<>>
    ELSE <<[id |-> raw.id, symbol |-> raw.symbol, targetPrice |-> raw.targetPrice,
            type |-> IF raw.type = "below" THEN "below" ELSE "above",
            status |-> IF raw.status = "triggered" THEN "triggered" ELSE "active"]>>

\* body.alerts.map(normalizeAlert).filter(Boolean)
NormalizeAlerts(raws) == Flatten([i \in DOMAIN raws |-> NormalizeAlert(raws[i])])

\* encrypt(value) and decrypt(payload)
Encrypt(value) == <<"aes-256-gcm", value>>

Decrypt(payload) == payload[2]

\* db.clients[deviceId] = client, in the insertion order of Object.entries
SetClient(clients, client) ==
    IF \E i \in DOMAIN clients : clients[i].deviceId = client.deviceId
    THEN [i \in DOMAIN clients |->
             IF clients[i].deviceId = client.deviceId THEN client ELSE clients[i]]
    ELSE Append(clients, client)

\* JSON.stringify(db): every client with the present value of its alerts
Serialize(clients, heap) ==
    [i \in DOMAIN clients |->
        [clients[i] EXCEPT !.alerts = [k \in DOMAIN clients[i].alerts |->
                                           heap[clients[i].alerts[k]]]]]

\* (client.alerts || []).filter((a) => a.status === 'active')
ActiveOf(heap, alerts) == SelectSeq(alerts, LAMBDA o : heap[o].status = "active")

\* line 181: hit
Hit(alert, live) ==
    \/ alert.type = "above" /\ live >= alert.targetPrice
    \/ alert.type = "below" /\ live <= alert.targetPrice

\* the prices fetchPrice answers with
LivePrices == {90, 110}

\* the priceMap the first loop of evaluateClientAlerts may build: a price for
\* every symbol whose fetchPrice did not throw
PriceMaps(symbolSet) == UNION {[some -> LivePrices] : some \in SUBSET symbolSet}

\* the first alert of `active` from index `from` on that the second loop finds
\* hit, or 0
NextHit(heap, active, priceMap, from) ==
    LET hits == {j \in from .. Len(active) :
                    /\ heap[active[j]].symbol \in DOMAIN priceMap
                    /\ Hit(heap[active[j]], priceMap[heap[active[j]].symbol])}
    IN IF hits = {} THEN 0 ELSE CHOOSE j \in hits : \A k \in hits : j <= k

\* the first client of `entries` from index `from` on that has an active alert
\* (evaluateClientAlerts returns at line 163 for the others), or Len + 1
NextClient(heap, entries, from) ==
    LET busy == {j \in from .. Len(entries) : ActiveOf(heap, entries[j].alerts) # <<>>}
    IN IF busy = {} THEN Len(entries) + 1 ELSE CHOOSE j \in busy : \A k \in busy : j <= k

IdlePoll ==
    [pc |-> "idle", entries |-> <<>>, ci |-> 0, active |-> <<>>, priceMap |-> <<>>,
     ai |-> 0, changed |-> FALSE]

\* the poll moves to the client at index `from` or behind: it awaits that
\* client's prices, or has run out of clients
EnterClient(poll, heap, from) ==
    LET ci == NextClient(heap, poll.entries, from)
    IN IF ci > Len(poll.entries)
       THEN [poll EXCEPT !.pc = "done", !.ci = ci, !.active = <<>>, !.priceMap = <<>>,
                         !.ai = 0]
       ELSE [poll EXCEPT !.pc = "prices", !.ci = ci,
                         !.active = ActiveOf(heap, poll.entries[ci].alerts),
                         !.priceMap = <<>>, !.ai = 0]

\* alert.status = 'triggered'
Trigger(heap, o) == [heap EXCEPT ![o].status = "triggered"]

\* the second loop of evaluateClientAlerts from index `from` on, up to its
\* next await: the next hit alert is marked and its message is on its way, or
\* the client is finished and the poll moves on
EvaluateFrom(poll, heap, from) ==
    LET j == NextHit(heap, poll.active, poll.priceMap, from)
    IN IF j = 0
       THEN [poll |-> EnterClient(poll, heap, poll.ci + 1), heap |-> heap]
       ELSE [poll |-> [poll EXCEPT !.pc = "telegram", !.ai = j, !.changed = TRUE],
             heap |-> Trigger(heap, poll.active[j])]

\* the server has started on an empty relay-db.json; the sender's rate bucket
\* is new or one request short of RATE_LIMIT_MAX
RStart ==
    /\ relayClients = <<>> /\ alertHeap = <<>> /\ relayFile = <<>>
    /\ rateCount \in {0, RATE_LIMIT_MAX - 1}
    /\ syncReq = NoRequest /\ syncPc = "idle" /\ syncCount = 0
    /\ relayResponse = [n |-> 0]
    /\ telegrams = <<>>

RInit == RStart /\ polls = [p \in 1 .. MaxPolls |-> IdlePoll]

Respond(req, code) == relayResponse' = [n |-> syncCount', request |-> req, code |-> code]

\* a POST /api/sync arrives: isRateLimited (the window of the bucket may have
\* run out), isAuthorized, then the handler awaits the body
SyncArrive ==
    /\ syncPc = "idle"
    /\ syncCount < MaxSyncs
    /\ syncCount' = syncCount + 1
    /\ \E req \in SyncRequests, expired \in BOOLEAN :
        /\ rateCount' = IF rateCount = 0 \/ expired THEN 1 ELSE rateCount + 1
        /\ IF rateCount' > RATE_LIMIT_MAX
           THEN Respond(req, 429) /\ UNCHANGED <<syncReq, syncPc>>
           ELSE IF ~IsAuthorized(req)
           THEN Respond(req, 401) /\ UNCHANGED <<syncReq, syncPc>>
           ELSE syncReq' = req /\ syncPc' = "body" /\ UNCHANGED relayResponse
    /\ UNCHANGED <<relayClients, alertHeap, relayFile, polls, telegrams>>
    /\ UNCHANGED othersR

\* lines 300-322: the body has arrived
SyncBody ==
    /\ syncPc = "body"
    /\ UNCHANGED <<rateCount, syncCount, polls>>
    /\ LET parsed == ParseBody(syncReq.body)
           body == parsed.parsed
           alerts == NormalizeAlerts(body.alerts)
           client ==
               [deviceId |-> body.deviceId,
                exchange |-> NormalizeExchange(body.exchange),
                telegramBotTokenEnc |-> Encrypt(body.telegramBotToken),
                telegramChatIdEnc |-> Encrypt(body.telegramChatId),
                alerts |-> [k \in DOMAIN alerts |-> Len(alertHeap) + k]]
       IN IF ~parsed.ok
          THEN Respond(syncReq, 400) /\ UNCHANGED <<relayClients, alertHeap, relayFile, telegrams>>
          ELSE IF ~VerifySignature(syncReq, parsed.raw)
          THEN Respond(syncReq, 401) /\ UNCHANGED <<relayClients, alertHeap, relayFile, telegrams>>
          ELSE IF body.deviceId = ""
          THEN Respond(syncReq, 400) /\ UNCHANGED <<relayClients, alertHeap, relayFile, telegrams>>
          ELSE /\ alertHeap' = alertHeap \o alerts
               /\ telegrams' = telegrams \o [k \in DOMAIN alerts |-> 0]
               /\ relayClients' = SetClient(relayClients, client)
               /\ relayFile' = Serialize(relayClients', alertHeap')
               /\ Respond(syncReq, 200)
    /\ syncReq' = NoRequest /\ syncPc' = "idle"
    /\ UNCHANGED othersR

\* if (changed) writeDb(db), when the poll has run out of clients
PollWrites(poll, heap) ==
    IF poll.pc = "done" /\ poll.changed THEN relayFile' = Serialize(relayClients, heap)
    ELSE UNCHANGED relayFile

\* a setInterval tick calls poll(): Object.entries(db.clients), then
\* evaluateClientAlerts up to the first fetchPrice
PollTick(p) ==
    /\ polls[p].pc = "idle"
    /\ IF p = 1 THEN TRUE ELSE polls[p - 1].pc # "idle"
    /\ LET started == EnterClient([IdlePoll EXCEPT !.entries = relayClients], alertHeap, 1)
       IN polls' = [polls EXCEPT ![p] = started] /\ PollWrites(started, alertHeap)
    /\ UNCHANGED <<relayClients, alertHeap, rateCount, syncReq, syncPc, syncCount,
                   relayResponse, telegrams>>
    /\ UNCHANGED othersR

\* the prices of the client's symbols have been fetched (or not): the second
\* loop runs up to its first sendTelegram
PollPrices(p) ==
    /\ polls[p].pc = "prices"
    /\ \E priceMap \in PriceMaps({alertHeap[polls[p].active[k]].symbol : k \in DOMAIN polls[p].active}) :
        LET r == EvaluateFrom([polls[p] EXCEPT !.priceMap = priceMap], alertHeap, 1)
        IN /\ polls' = [polls EXCEPT ![p] = r.poll]
           /\ alertHeap' = r.heap
           /\ PollWrites(r.poll, r.heap)
    /\ UNCHANGED <<relayClients, rateCount, syncReq, syncPc, syncCount, relayResponse,
                   telegrams>>
    /\ UNCHANGED othersR

\* sendTelegram has settled: nothing was sent without token or chat id,
\* otherwise Telegram delivered the message or answered an error; the
\* second loop goes on
PollTelegram(p) ==
    /\ polls[p].pc = "telegram"
    /\ LET poll == polls[p]
           client == poll.entries[poll.ci]
           o == poll.active[poll.ai]
           r == EvaluateFrom(poll, alertHeap, poll.ai + 1)
       IN /\ \E delivered \in BOOLEAN :
                telegrams' =
                    IF /\ Decrypt(client.telegramBotTokenEnc) # ""
                       /\ Decrypt(client.telegramChatIdEnc) # ""
                       /\ delivered
                    THEN [telegrams EXCEPT ![o] = @ + 1]
                    ELSE telegrams
          /\ polls' = [polls EXCEPT ![p] = r.poll]
          /\ alertHeap' = r.heap
          /\ PollWrites(r.poll, r.heap)
    /\ UNCHANGED <<relayClients, rateCount, syncReq, syncPc, syncCount, relayResponse>>
    /\ UNCHANGED othersR

InitRelay == RInit /\ EngineIdle /\ JIdle

NextRelay ==
    \/ SyncArrive \/ SyncBody
    \/ \E p \in 1 .. MaxPolls : PollTick(p) \/ PollPrices(p) \/ PollTelegram(p)

SpecRelay == InitRelay /\ [][NextRelay]_vars

\* the /api/sync handler on its own, between two ticks
InitRelaySync == RStart /\ polls = <<>> /\ EngineIdle /\ JIdle

NextRelaySync == SyncArrive \/ SyncBody

SpecRelaySync == InitRelaySync /\ [][NextRelaySync]_vars

\* the step answers a request
Answered == relayResponse' # relayResponse

\* the request lacks the correct X-Relay-Api-Key, or its X-Relay-Signature is
\* not the HMAC of its timestamp and raw body under the API key, or its
\* timestamp is older than SIGNATURE_MAX_AGE_MS
Unauthentic(req) ==
    \/ req.key # RELAY_API_KEY
    \/ req.signature # RelaySignature(req.timestamp, req.body, RELAY_API_KEY)
    \/ req.timestamp.numeric /\ RelayNow - req.timestamp.ms > SIGNATURE_MAX_AGE_MS

\* only an answered request that passes both checks changes db.clients
OnlyAuthenticWrites ==
    relayClients' # relayClients => Answered /\ ~Unauthentic(relayResponse'.request)

\* C25 as stated: a POST /api/sync without the correct key, with a signature
\* that is not the HMAC of its timestamp and raw body, or with a timestamp
\* older than SIGNATURE_MAX_AGE_MS is answered 401 and leaves db.clients
\* unchanged; only a request passing both checks creates or replaces a client.
C25_UnauthenticIs401 ==
    [][/\ Answered =>
            (Unauthentic(relayResponse'.request) =>
                relayResponse'.code = 401 /\ relayClients' = relayClients)
       /\ OnlyAuthenticWrites
    ]_vars

\* C25 amended: such a request is never answered 200 and leaves db.clients
\* and relay-db.json unchanged; it is answered 401, except that a sender over
\* the rate limit is answered 429 and a request with the correct key whose
\* body is not the JSON text of an object is answered 400 or 401; only a
\* request passing both checks creates or replaces a client.
C25_UnauthenticRejected ==
    [][/\ Answered =>
            LET req == relayResponse'.request
                code == relayResponse'.code
            IN Unauthentic(req) =>
                /\ relayClients' = relayClients /\ relayFile' = relayFile
                /\ alertHeap' = alertHeap
                /\ \/ code = 401
                   \/ code = 429 /\ rateCount' > RATE_LIMIT_MAX
                   \/ code = 400 /\ req.key = RELAY_API_KEY /\ req.body.kind # "object"
       /\ OnlyAuthenticWrites
    ]_vars

\* after a client was stored, a second request with the correct key and a
\* signature made for another body has been answered 401
C25_Witness ==
    /\ relayResponse.n = 2
    /\ relayResponse.code = 401
    /\ relayResponse.request.key = RELAY_API_KEY
    /\ relayResponse.request.timestamp = Stamp(RelayNow)
    /\ relayResponse.request.signature # <<>>
    /\ relayResponse.request.body.kind = "object"
    /\ Len(relayClients) = 1
    /\ relayFile = Serialize(relayClients, alertHeap)

\* C29: each alert a client synced as active causes at most one Telegram
\* message, under every interleaving of overlapping poll() calls and of
\* /api/sync requests arriving during a poll.
C29_AtMostOneTelegram == \A o \in DOMAIN telegrams : telegrams[o] <= 1

---------------------------------------------------------------------------
(* The Journal screen's sync control: stopActiveSync and onImportTrades      *)

\* presses of the import button in one trace
MaxImportPresses == 3

\* what the form holds when the button is pressed, by the check it fails
JournalForms == {"no credentials", "no from date", "bad date", "from after to", "valid"}

\* how the awaited fetchFuturesPositionHistory settles
FetchOutcomes ==
    [kind : {"resolved"}, trades : {"none", "some"}, error : {""}]
        \cup [kind : {"rejected"}, trades : {"none"},
              error : {"AbortError", "Request cancelled", "Network Error"}]

\* the component is mounted: its setters take effect
Mounted == syncInfo # "unmounted"

StopActiveSyncDetach(syncs, ref) == syncs

\* stopActiveSync: the controller in syncAbortRef.current, if any, is aborted
StopActiveSync(syncs, ref) ==
    IF ref = 0 THEN syncs ELSE [syncs EXCEPT ![ref].aborted = TRUE]

\* isAbortLikeError
IsAbortLikeError(error) == error \in {"AbortError", "Request cancelled"}

\* the validation returns of onImportTrades: the message set, "" if none
FormError(form) ==
    IF form = "no credentials" THEN "Add API key and secret in Settings first."
    ELSE IF form = "no from date" THEN "From Date is required."
    ELSE IF form = "bad date" THEN "Please select a valid date."
    ELSE IF form = "from after to" THEN "From Date must be earlier than or equal to To Date."
    ELSE ""

\* the rest of onImportTrades after the await, by what it does
AfterAwait(sync, settled) ==
    IF settled.kind = "resolved"
    THEN IF sync.aborted THEN "cancelled"
         ELSE IF settled.trades = "some" THEN "dispatched" ELSE "empty"
    ELSE IF IsAbortLikeError(settled.error) THEN "cancelled" ELSE "failed"

JInit ==
    /\ journalSyncs = <<>> /\ syncAbortRef = 0 /\ dispatched = <<>>
    /\ loading = FALSE /\ syncInfo = "none" /\ journalError = "none"

\* onImportTrades up to the await
OnImportTrades ==
    /\ Mounted
    /\ Len(journalSyncs) < MaxImportPresses
    /\ \E form \in JournalForms :
        LET stopped == StopActiveSync(journalSyncs, syncAbortRef)
        IN IF FormError(form) # ""
           THEN /\ journalSyncs' = stopped
                /\ syncAbortRef' = 0
                /\ journalError' = FormError(form)
                /\ UNCHANGED <<loading, syncInfo>>
           ELSE /\ journalSyncs' =
                     Append(stopped, [pc |-> "fetching", aborted |-> FALSE,
                                      outcome |-> "pending", doneAt |-> 0])
                /\ syncAbortRef' = Len(stopped) + 1
                /\ loading' = TRUE /\ journalError' = "none" /\ syncInfo' = "none"
    /\ UNCHANGED dispatched
    /\ UNCHANGED othersJ

\* onPickDate: a date picked in the calendar stops the active sync
OnPickDate ==
    /\ Mounted
    /\ syncAbortRef # 0
    /\ journalSyncs' = StopActiveSync(journalSyncs, syncAbortRef)
    /\ syncAbortRef' = 0
    /\ UNCHANGED <<dispatched, loading, syncInfo, journalError>>
    /\ UNCHANGED othersJ

\* the effect's cleanup when the screen is unmounted
Unmount ==
    /\ Mounted
    /\ journalSyncs' = StopActiveSync(journalSyncs, syncAbortRef)
    /\ syncAbortRef' = 0
    /\ syncInfo' = "unmounted"
    /\ UNCHANGED <<dispatched, loading, journalError>>
    /\ UNCHANGED othersJ

\* the await of sync i settles and onImportTrades runs to its end
FetchSettled(i) ==
    /\ i \in DOMAIN journalSyncs
    /\ journalSyncs[i].pc = "fetching"
    /\ \E settled \in FetchOutcomes :
        LET ending  == AfterAwait(journalSyncs[i], settled)
            finished == Cardinality({o \in DOMAIN journalSyncs : journalSyncs[o].pc = "done"})
        IN /\ journalSyncs' = [journalSyncs EXCEPT ![i].pc = "done", ![i].outcome = ending,
                                                    ![i].doneAt = finished + 1]
           /\ dispatched' =
                  IF ending = "dispatched"
                  THEN Append(dispatched, [sync |-> i, aborted |-> journalSyncs[i].aborted])
                  ELSE dispatched
           /\ syncAbortRef' = IF syncAbortRef = i THEN 0 ELSE syncAbortRef
           /\ IF Mounted
              THEN /\ loading' = FALSE
                   /\ syncInfo' =
                          IF ending = "cancelled" THEN "Previous sync cancelled."
                          ELSE IF ending = "failed" THEN syncInfo
                          ELSE "Synced trades for selected dates."
                   /\ journalError' =
                          IF ending = "empty"
                          THEN "No closed trades found for the selected date range."
                          ELSE IF ending = "failed" THEN "Trade import failed"
                          ELSE journalError
              ELSE UNCHANGED <<loading, syncInfo, journalError>>
    /\ UNCHANGED othersJ

InitJournal == JInit /\ EngineIdle /\ RIdle

NextJournal ==
    \/ OnImportTrades
    \/ OnPickDate
    \/ Unmount
    \/ \E i \in 1 .. MaxImportPresses : FetchSettled(i)

SpecJournal == InitJournal /\ [][NextJournal]_vars

\* the syncs whose venue calls are under way and whose controller is not aborted
LiveSyncs ==
    {i \in DOMAIN journalSyncs : journalSyncs[i].pc = "fetching" /\ ~journalSyncs[i].aborted}

\* C30: starting a sync aborts the previously active sync (every sync started
\* before the newest one is aborted or has ended), at most one non-aborted
\* sync exists at any time (it is the one in syncAbortRef), and a sync whose
\* controller has been aborted never dispatches IMPORT_TRADES, in whichever
\* order the syncs' venue calls complete.
C30_OneLiveSyncNoAbortedDispatch ==
    /\ \A i \in DOMAIN journalSyncs :
           i < Len(journalSyncs) =>
               journalSyncs[i].aborted \/ journalSyncs[i].pc = "done"
    /\ Cardinality(LiveSyncs) <= 1
    /\ \A i \in LiveSyncs : syncAbortRef = i
    /\ \A o \in DOMAIN dispatched : ~dispatched[o].aborted
    /\ \A i \in DOMAIN journalSyncs :
           journalSyncs[i].aborted => journalSyncs[i].outcome \in {"pending", "cancelled", "failed"}

\* a second sync was started while the first was fetching; the second ended
\* first and dispatched its trades; the first, aborted, then ended without
\* dispatching
C30_Witness ==
    /\ Len(journalSyncs) >= 2
    /\ journalSyncs[1].aborted /\ journalSyncs[1].outcome = "cancelled"
    /\ journalSyncs[1].doneAt = 2
    /\ ~journalSyncs[2].aborted /\ journalSyncs[2].outcome = "dispatched"
    /\ journalSyncs[2].doneAt = 1
    /\ Len(dispatched) = 1 /\ dispatched[1].sync = 2

===========================================================================
